---- MODULE Spec2Model ----
(***************************************************************************)
(* A model of the websocket server of pkgz/websocket: the connection       *)
(* (Conn), the server registry and router (Server), and the per-request    *)
(* read loop (Server.Handler).  Every goroutine of the program is a        *)
(* process with a program counter; a call of Conn.Write or Conn.Close is   *)
(* a jump to the callee's first label with the return label saved in ret.  *)
(***************************************************************************)
EXTENDS Integers, Sequences, FiniteSets, TLC

\* ---------------------------------------------------------------- bounds
NConns == 2
\* operations the environment (clients, timers, application goroutines) starts
MaxOps == 3

\* channels made with Server.NewChannel
NChans == 1
\* calls of Purge on one channel
MaxPurges == 1

Conns == 1..NConns
Chans == 1..NChans
Apps == {"a", "b"}

None == <<"none", 0>>

Handlers == {<<"h", c>> : c \in Conns}
Keepers == {<<"k", c>> : c \in Conns}
AppProcs == {<<"app", i>> : i \in Apps}
Notifiers == {<<"nt", c>> : c \in Conns}
Closers == {<<"sdg", c>> : c \in Conns}
Hooks == {<<"oc", c>> : c \in Conns}
DiscHooks == {<<"od", c>> : c \in Conns}
ChanGs == {<<"chg", ch>> : ch \in Chans}
Fans == {<<"fan", i>> : i \in 1..MaxOps}
Runner == <<"run", 0>>
Procs == Handlers \cup Keepers \cup AppProcs \cup Notifiers \cup Closers
            \cup Hooks \cup DiscHooks \cup ChanGs \cup Fans \cup {Runner}
\* the goroutines that range over a map of connections
Rangers == AppProcs \cup Fans

ConnOf(p) == p[2]

VARIABLES
    pc,         \* position of every goroutine
    ret,        \* return label of the call a goroutine is in
    arg,        \* the *Conn a goroutine's call works on
    res,        \* result of the last call: "nil" or "err"
    budget,     \* operations the environment may still start
    cconn,      \* Conn.conn: "unset" (no Conn yet), "set" or "nil"
    sock,       \* the net.Conn: "none", "open", "broken", "closed"
    cdone,      \* Conn.done: number of values buffered (capacity DoneCap)
    cmu,        \* Conn.mu: the goroutine holding it, or None
    writing,    \* goroutines between the header and the payload of a frame
    connections,\* Server.connections
    smu,        \* Server.mu: [w |-> writer or None, r |-> set of readers]
    sdone,      \* Server.done
    wg,         \* the sync.WaitGroup of the Shutdown call in progress
    delChan,    \* Server.delChan: the notification queues of the channels
    ntList,     \* per dropConn notifier: the queues it has still to send to
    snap,       \* per goroutine: the registry map as read by a map write
    evt,        \* the event-loop variant of the Server: the tokens in its done
                \* channel and its shutdown flag
    onConnect,  \* Server.onConnect: "nil", or what the hook does ("add")
    onDisconnect, \* Server.onDisconnect: "nil", or "hook" for a function
    ctxDone,    \* the context given to Run has been cancelled
    members,    \* Channel.connections, per channel
    chq,        \* Channel.delConn: which queue the field holds (Purge makes a new one)
    grecv,      \* the queue a channel's goroutine is receiving from
    chmu,       \* Channel.mu: the goroutine holding it, or None
    ech,        \* the *Channel a goroutine's call works on
    iter,       \* a range over a map of connections, per goroutine
    callbacks,  \* Server.callbacks: the names a handler is registered for
    frame,      \* per read loop: the header and payload handed to processMessage
    loop,       \* per read loop: state, textPending and the UTF-8 reader's state
    hist        \* history variables (not program state)

vars == <<pc, ret, arg, res, budget, cconn, sock, cdone, cmu, writing,
          connections, smu, sdone, wg, delChan, ntList, snap, evt, onConnect, onDisconnect, ctxDone,
          members, chq, grecv, chmu, ech, iter, callbacks, frame, loop, hist>>

envVars == <<budget>>
sdVars == <<sdone, wg>>
ntVars == <<delChan, ntList>>
chanVars == <<members, chq, grecv, chmu>>
callVars == <<ech, iter>>
routeVars == <<callbacks, frame, loop>>
\* what the application has given the server: its hooks and Run's context
appVars == <<onConnect, onDisconnect, ctxDone>>
farVars == <<appVars, chanVars, callVars, routeVars>>
snapVars == <<snap, evt>>
otherVars == <<sdVars, ntVars, snapVars, farVars>>

procVars == <<pc, ret, arg, res>>
connVars == <<cconn, sock, cdone, cmu, writing>>
regVars == <<connections, smu>>

\* make(chan bool, 1) in Handler
DoneCap == 1

\* ------------------------------------------------- messages and payloads
\* names of envelopes, and what a payload can have in the place of a name
Names == {"x", "y"}
NoName == "#absent"
NumName == "#number"

\* JSON texts of the data of an envelope: the value they stand for, written
\* the way json.Marshal writes it ("canon") or with other spacing
DataTexts == [val : {"hi", "n1"}, form : {"canon", "spaced"}]
NoData == [val |-> "#absent", form |-> "canon"]

\* payloads of a frame: no bytes, bytes that are not JSON, and JSON objects
\* with or without a "name" (a string or a number) and a "data"
EmptyPayload == [kind |-> "empty", name |-> NoName, data |-> NoData]
Garbage == [kind |-> "garbage", name |-> NoName, data |-> NoData]
Payloads ==
    {EmptyPayload, Garbage} \cup
    [kind : {"obj"}, name : Names \cup {NoName, NumName}, data : DataTexts \cup {NoData}]

OpCodes == {"text", "binary"}
NoFrame == [op |-> "none", fin |-> TRUE, b |-> EmptyPayload, u |-> "none"]

\* what the bytes of a payload are to a UTF-8 decoder: no bytes, whole
\* characters, whole characters and then the first bytes of one, the last
\* bytes of a character and then whole ones, or bytes no text has
Utf8Classes == {"none", "ok", "head", "tail", "bad"}

\* the opcodes of data frames
DataOps == OpCodes \cup {"cont"}

\* state := ws.StateServerSide; textPending := false;
\* utf8Reader := wsutil.NewUTF8Reader(nil)
IdleLoop == [frag |-> FALSE, textPending |-> FALSE, utf8 |-> "accept"]

\* io.ReadFull(utf8Reader, payload): the reader's state after the bytes, and
\* ErrInvalidUTF8 when they cannot follow the bytes read before
Utf8Read(st, u) ==
    CASE u = "none" -> [err |-> FALSE, st |-> st]
      [] u = "ok"   -> [err |-> st # "accept", st |-> st]
      [] u = "head" -> [err |-> st # "accept", st |-> "pending"]
      [] u = "tail" -> [err |-> st # "pending", st |-> "accept"]
      [] OTHER      -> [err |-> TRUE, st |-> st]

\* json.Unmarshal(b, &msg) into struct { Name string; Data any }: an error
\* unless b is a JSON object whose "name", if any, is a string; a missing
\* field keeps its zero value
jsonUnmarshal(b) ==
    IF b.kind = "obj" /\ b.name # NumName
    THEN [err |-> FALSE,
          Name |-> IF b.name = NoName THEN "" ELSE b.name,
          Data |-> IF b.data = NoData THEN "null" ELSE b.data.val]
    ELSE [err |-> TRUE, Name |-> "", Data |-> "null"]

\* json.Marshal(msg.Data): the value in json.Marshal's own writing
jsonMarshal(v) == [val |-> v, form |-> "canon"]

\* the value a JSON text decodes to
jsonDecode(t) == IF t = NoData THEN "null" ELSE t.val

\* json.Marshal of a []byte value: a JSON string holding the standard base64
\* encoding of the bytes, here the bytes of a JSON text in json.Marshal's
\* writing: "hi" with its quotes, the number 1, null
base64Std(t) ==
    CASE t.val = "hi" -> "ImhpIg=="
      [] t.val = "n1" -> "MQ=="
      [] OTHER -> "bnVsbA=="

\* Conn.Emit(name, data) with data a []byte: the frame it hands to Write, a
\* Binary frame (TextMessage is false) with json.Marshal of
\* struct{Name string; Data interface{}}{name, data} as its payload
connEmit(name, data) ==
    [op |-> "binary", fin |-> TRUE, u |-> "ok",
     b |-> [kind |-> "obj", name |-> name,
            data |-> [val |-> base64Std(data), form |-> "canon"]]]

\* no message dispatched yet
NoDispatch == [done |-> FALSE, op |-> "none", fin |-> TRUE, b |-> EmptyPayload,
               u |-> "none", cbs |-> {},
               cb |-> 0, raw |-> 0, name |-> "", conn |-> 0, data |-> NoData]

\* payloads of a Ping frame
PingPayloads == {EmptyPayload, Garbage}

\* what a client reads as a frame's payload when the bytes of two frames
\* were written to the socket one into the other
Torn == [kind |-> "torn", name |-> NoName, data |-> NoData]

\* no message has begun to arrive
NoMsg == [op |-> "none", parts |-> <<>>, disp |-> 0, complete |-> FALSE]

\* the message a data frame belongs to, with that frame in it: a Text or
\* Binary frame begins a message, a Continuation frame goes on with one
WithFrame(m, op, fin, b, u) ==
    IF op = "cont"
    THEN [m EXCEPT !.parts = Append(@, [b |-> b, u |-> u]), !.complete = fin]
    ELSE [op |-> op, parts |-> <<[b |-> b, u |-> u]>>, disp |-> 0, complete |-> fin]

\* the event-loop Server after Create(): done is make(chan bool, 1), empty,
\* and shutdown is false
NoEvents == [done |-> 0, shutdown |-> FALSE]

\* Create: done: make(chan bool, 1)
EvDoneCap == 1

\* ---------------------------------------------------------------- helpers
\* no range over a channel's map in progress
NoIter == [on |-> FALSE, base |-> {}, seen |-> {}, old |-> {}, live |-> TRUE]

\* no call of Channel.Emit made yet
NoEmit == [on |-> FALSE, over |-> FALSE, kept |-> {}, failed |-> {}, stale |-> {},
           wrote |-> [c \in Conns |-> 0]]

\* no Channel.Count() has returned yet
NoCount == [done |-> FALSE, n |-> 0, closed |-> {}]

\* no fan-out of a broadcast made yet
NoFan == [on |-> FALSE, over |-> FALSE, reg |-> {}, att |-> [c \in Conns |-> 0]]

Goto(p, l) == pc' = [pc EXCEPT ![p] = l]

Call(p, entry, c, back) ==
    /\ pc' = [pc EXCEPT ![p] = entry]
    /\ ret' = [ret EXCEPT ![p] = back]
    /\ arg' = [arg EXCEPT ![p] = c]

Return(p, r) ==
    /\ pc' = [pc EXCEPT ![p] = ret[p]]
    /\ res' = [res EXCEPT ![p] = r]
    /\ UNCHANGED <<ret, arg>>

Bump(h, f, c) == [h EXCEPT ![f][c] = @ + 1]

\* A goroutine started with "go" that panics ends the process; a panic on
\* the goroutine net/http runs Handler on is recovered by net/http.
Crashed ==
    \/ \E p \in Procs \ Handlers : pc[p] = "panicked"
    \/ \E p \in Procs : pc[p] = "fatal"

At(p, l) == ~Crashed /\ pc[p] = l


\* Fan-outs are numbered in the order in which Run received their
\* broadcasts.  A fan-out started after f has already put its message on
\* c's socket: it has taken c from the range and is past c.mu.Lock() and the
\* header write of its Conn.Write (the socket was open then, as it is now).
LaterFanWrote(f, c) ==
    \E g \in Fans :
        /\ g[2] > f[2]
        /\ hist.fan[g].att[c] > 0
        /\ ~(pc[g] \in {"Write_lock", "Write_hdr"} /\ arg[g] = c)

\* ------------------------------------------------------------ Conn.Write
\* c.mu.Lock(); defer c.mu.Unlock()
Write_lock(p) ==
    /\ At(p, "Write_lock")
    /\ cmu[arg[p]] = None
    /\ cmu' = [cmu EXCEPT ![arg[p]] = p]
    /\ Goto(p, "Write_hdr")
    /\ UNCHANGED <<ret, arg, res, cconn, sock, cdone, writing, regVars, envVars, otherVars, hist>>

\* c.conn.SetWriteDeadline(...); err := ws.WriteHeader(c.conn, h).
\* c.conn is a nil interface after Close: the method call panics.
Write_hdr(p) ==
    LET c == arg[p] IN
    /\ At(p, "Write_hdr")
    /\ IF cconn[c] = "nil"
         THEN /\ Goto(p, "panicked")
              /\ cmu' = [cmu EXCEPT ![c] = None]
              /\ sock' = IF p \in Handlers /\ sock[ConnOf(p)] # "none"
                          THEN [sock EXCEPT ![ConnOf(p)] = "closed"] ELSE sock
              /\ hist' = [hist EXCEPT !.panics = @ \cup {p}]
              /\ UNCHANGED <<ret, arg, res, writing>>
         ELSE IF sock[c] = "open"
         THEN /\ Goto(p, "Write_body")
              /\ writing' = [writing EXCEPT ![c] = @ \cup {p}]
              /\ hist' = [hist EXCEPT !.torn =
                            [h \in Handlers |->
                               @[h] \/ (h \in writing[c] /\ frame[h].b.kind # "empty")],
                                       !.overtaken[c] = @ \/ (p \in Fans /\ LaterFanWrote(p, c))]
              /\ UNCHANGED <<ret, arg, res, cmu, sock>>
         ELSE /\ Return(p, "err")
              /\ cmu' = [cmu EXCEPT ![c] = None]
              /\ hist' = [hist EXCEPT !.writeRets[p] = "err"]
              /\ UNCHANGED <<writing, sock>>
    /\ UNCHANGED <<cconn, cdone, regVars, envVars, otherVars>>

\* _, err = c.conn.Write(b); return err.  A read loop calls Write
\* only from the default handler, with the header and payload it was given.
Write_body(p) ==
    LET c == arg[p]
        r == IF sock[c] = "open" THEN "nil" ELSE "err" IN
    /\ At(p, "Write_body")
    /\ Return(p, r)
    /\ writing' = [writing EXCEPT ![c] = @ \ {p}]
    /\ cmu' = [cmu EXCEPT ![c] = None]
    /\ hist' = [hist EXCEPT !.writeRets[p] = r,
                             !.echoed = IF p \in Handlers /\ r = "nil"
                                         THEN [@ EXCEPT ![p] = Append(@, [to |-> c, f |-> frame[p]])]
                                         ELSE @]
    /\ UNCHANGED <<cconn, sock, cdone, regVars, envVars, otherVars>>

\* ------------------------------------------------------------ Conn.Close
CloseLockNoMutex(p) ==
    /\ At(p, "Close_lock")
    /\ Goto(p, "Close_check")
    /\ UNCHANGED <<ret, arg, res, connVars, regVars, envVars, otherVars, hist>>

\* c.mu.Lock(); defer c.mu.Unlock()
Close_lock(p) ==
    /\ At(p, "Close_lock")
    /\ cmu[arg[p]] = None
    /\ cmu' = [cmu EXCEPT ![arg[p]] = p]
    /\ Goto(p, "Close_check")
    /\ UNCHANGED <<ret, arg, res, cconn, sock, cdone, writing, regVars, envVars, otherVars, hist>>

\* if c.conn == nil { return nil }
Close_check(p) ==
    LET c == arg[p] IN
    /\ At(p, "Close_check")
    /\ IF cconn[c] = "nil"
         THEN /\ Return(p, "nil")
              /\ cmu' = [cmu EXCEPT ![c] = None]
              /\ hist' = [hist EXCEPT !.closeRets[c] = @ + 1,
                                       !.closeNoop[c] = @ + 1]
         ELSE /\ Goto(p, "Close_body")
              /\ UNCHANGED <<ret, arg, res, cmu, hist>>
    /\ UNCHANGED <<cconn, sock, cdone, writing, regVars, envVars, otherVars>>

\* c.done <- true; err := c.conn.Close(); c.conn = nil; return err
Close_body(p) ==
    LET c == arg[p] IN
    /\ At(p, "Close_body")
    /\ cdone[c] < DoneCap
    /\ cdone' = [cdone EXCEPT ![c] = @ + 1]
    /\ sock' = [sock EXCEPT ![c] = "closed"]
    /\ cconn' = [cconn EXCEPT ![c] = "nil"]
    /\ cmu' = [cmu EXCEPT ![c] = None]
    /\ Return(p, IF sock[c] = "closed" THEN "err" ELSE "nil")
    /\ hist' = [hist EXCEPT !.closeRets[c] = @ + 1,
                             !.sockCloses[c] = @ + 1,
                             !.doneSends[c] = @ + 1]
    /\ UNCHANGED <<writing, regVars, envVars, otherVars>>

\* ------------------------------------------------------- Conn.startPing
\* case <-ticker.C: if err := c.Write(pingHeader, nil); err != nil { ... }
startPing_tick(k) ==
    /\ At(k, "ka_select")
    /\ budget > 0
    /\ budget' = budget - 1
    /\ Call(k, "Write_lock", ConnOf(k), "ka_wrote")
    /\ hist' = [hist EXCEPT !.late[k] = hist.closeRets[ConnOf(k)] > 0,
                             !.writeRets[k] = "none"]
    /\ UNCHANGED <<res, connVars, regVars, otherVars>>

\* ... { _ = c.Close() }
startPing_wrote(k) ==
    /\ At(k, "ka_wrote")
    /\ IF res[k] = "err"
         THEN Call(k, "Close_lock", ConnOf(k), "ka_select")
         ELSE Goto(k, "ka_select") /\ UNCHANGED <<ret, arg>>
    /\ UNCHANGED <<res, connVars, regVars, envVars, otherVars, hist>>

\* case <-c.done: ticker.Stop(); return
startPing_done(k) ==
    /\ At(k, "ka_select")
    /\ cdone[ConnOf(k)] > 0
    /\ cdone' = [cdone EXCEPT ![ConnOf(k)] = @ - 1]
    /\ Goto(k, "ka_exit")
    /\ hist' = Bump(hist, "tickerStops", ConnOf(k))
    /\ UNCHANGED <<ret, arg, res, cconn, sock, cmu, writing, regVars, envVars, otherVars>>

\* ------------------------------------------------------- Server.mu
SLockFree == smu.w = None /\ smu.r = {}
SLock(p) == [smu EXCEPT !.w = p]
SUnlock == [smu EXCEPT !.w = None]

\* ------------------------------------------------------- Server.Handler
\* ws.UpgradeHTTP; connection := &Conn{...}; connection.startPing();
\* addConn: if s.onConnect != nil { go s.onConnect(ctx, conn) }
Handler_upgrade(h) ==
    LET c == ConnOf(h) IN
    /\ At(h, "h_idle")
    /\ pc' = [pc EXCEPT ![h] = "addConn_lock", ![<<"k", c>>] = "ka_select",
                          ![<<"oc", c>>] = IF onConnect = "nil" THEN "off" ELSE "hook_run"]
    /\ cconn' = [cconn EXCEPT ![c] = "set"]
    /\ sock' = [sock EXCEPT ![c] = "open"]
    /\ hist' = [hist EXCEPT !.lateUp[h] = sdone]
    /\ UNCHANGED <<ret, arg, res, cdone, cmu, writing, regVars, envVars, otherVars>>

AddConnNoLock(h) ==
    /\ At(h, "addConn_lock")
    /\ snap' = [snap EXCEPT ![h] = connections]
    /\ UNCHANGED evt
    /\ Goto(h, "addConn_ins")
    /\ UNCHANGED <<ret, arg, res, connVars, regVars, farVars, envVars, sdVars, ntVars, hist>>

\* addConn: s.mu.Lock(); the map assignment that follows reads the map ...
addConn_lock(h) ==
    /\ At(h, "addConn_lock")
    /\ SLockFree
    /\ smu' = SLock(h)
    /\ snap' = [snap EXCEPT ![h] = connections]
    /\ UNCHANGED evt
    /\ Goto(h, "addConn_ins")
    /\ UNCHANGED <<ret, arg, res, connVars, connections, farVars, envVars, sdVars, ntVars, hist>>

\* ... and writes it: s.connections[conn] = true; s.mu.Unlock()
addConn_ins(h) ==
    /\ At(h, "addConn_ins")
    /\ connections' = snap[h] \cup {ConnOf(h)}
    /\ snap' = [snap EXCEPT ![h] = {}]
    /\ UNCHANGED evt
    /\ smu' = SUnlock
    /\ Goto(h, "h_read")
    /\ hist' = Bump(hist, "added", ConnOf(h))
    /\ UNCHANGED <<ret, arg, res, connVars, farVars, envVars, sdVars, ntVars>>

\* read loop, case ws.OpPing: the client has sent a Ping frame, whose
\* payload waits in cipherReader; header.OpCode = ws.OpPong
Handler_ping(h) ==
    /\ At(h, "h_read")
    /\ sock[ConnOf(h)] = "open"
    /\ budget > 0
    /\ budget' = budget - 1
    /\ \E b \in PingPayloads :
          /\ frame' = [frame EXCEPT ![h] = [op |-> "pong", fin |-> TRUE, b |-> b, u |-> "none"]]
          /\ hist' = [hist EXCEPT !.ping[h] = [n |-> @.n + 1, b |-> b]]
    /\ Goto(h, "pong_hdr")
    /\ UNCHANGED <<ret, arg, res, connVars, regVars, sdVars, ntVars, snapVars, appVars,
                   chanVars, callVars, callbacks, loop>>

\* _ = ws.WriteHeader(conn, header): on the net.Conn, not through Conn.Write
Handler_pongHeader(h) ==
    /\ At(h, "pong_hdr")
    /\ writing' = IF sock[ConnOf(h)] = "open"
                   THEN [writing EXCEPT ![ConnOf(h)] = @ \cup {h}] ELSE writing
    /\ Goto(h, "pong_body")
    /\ hist' = [hist EXCEPT !.torn[h] = writing[ConnOf(h)] \ Keepers # {}]
    /\ UNCHANGED <<ret, arg, res, cconn, sock, cdone, cmu, regVars, envVars, otherVars>>

\* _, _ = io.CopyN(conn, cipherReader, header.Length); continue.  The
\* client gets a Pong with the Ping's payload unless the Pong's header was
\* written between the header and the payload of another goroutine's frame
\* (the keepalive Ping has no payload), or another header between the
\* Pong's header and its payload.
Handler_pongPayload(h) ==
    /\ At(h, "pong_body")
    /\ writing' = [writing EXCEPT ![ConnOf(h)] = @ \ {h}]
    /\ Goto(h, "h_read")
    /\ hist' = IF h \in writing[ConnOf(h)] /\ sock[ConnOf(h)] = "open"
               THEN [hist EXCEPT !.pong[h] =
                       [n |-> @.n + 1, b |-> IF hist.torn[h] THEN Torn ELSE frame[h].b]]
               ELSE hist
    /\ UNCHANGED <<ret, arg, res, cconn, sock, cdone, cmu, regVars, envVars, otherVars>>

\* read loop, case ws.OpPong: the client has sent a Pong frame;
\* io.CopyN(io.Discard, conn, header.Length); continue
Handler_pong(h) ==
    /\ At(h, "h_read")
    /\ sock[ConnOf(h)] = "open"
    /\ budget > 0
    /\ budget' = budget - 1
    /\ hist' = [hist EXCEPT !.pongsIn[h] = @ + 1]
    /\ UNCHANGED <<pc, ret, arg, res, connVars, regVars, otherVars>>

HandlerCloseDispatch(h) ==
    /\ At(h, "h_read")
    /\ sock[ConnOf(h)] = "open"
    /\ budget > 0
    /\ budget' = budget - 1
    /\ Goto(h, "pm_route")
    /\ hist' = [hist EXCEPT !.cause[h] = "close"]
    /\ UNCHANGED <<ret, arg, res, connVars, regVars, otherVars>>

\* read loop, case ws.OpClose: the client has sent a Close frame; utf8Fin is
\* set, and valid or not, s.dropConn(ctx, connection); break
Handler_close(h) ==
    /\ At(h, "h_read")
    /\ sock[ConnOf(h)] = "open"
    /\ budget > 0
    /\ budget' = budget - 1
    /\ Goto(h, "dropConn_notify")
    /\ hist' = [hist EXCEPT !.cause[h] = "close"]
    /\ UNCHANGED <<ret, arg, res, connVars, regVars, otherVars>>

\* read loop: ReadHeader/CheckHeader/ReadFull fails, or the frame is a Close
\* frame: s.dropConn(ctx, connection); break
Handler_drop(h) ==
    /\ At(h, "h_read")
    /\ Goto(h, "dropConn_notify")
    /\ hist' = [hist EXCEPT !.cause[h] = "read"]
    /\ UNCHANGED <<ret, arg, res, connVars, regVars, envVars, otherVars>>

\* read loop: the socket has been closed, or the peer is gone, and
\* ws.ReadHeader returns at once: CheckHeader refuses the zero header;
\* s.dropConn(ctx, connection); break
Handler_readError(h) ==
    /\ At(h, "h_read")
    /\ sock[ConnOf(h)] # "open"
    /\ Goto(h, "dropConn_notify")
    /\ hist' = [hist EXCEPT !.cause[h] = "read"]
    /\ UNCHANGED <<ret, arg, res, connVars, regVars, envVars, otherVars>>

\* dropConn: if !reflect.ValueOf(s.onDisconnect).IsNil() { go
\* s.onDisconnect(ctx, conn) }; go func() { for _, dC := range s.delChan {
\* dC <- conn } }()
dropConn_notify(h) ==
    /\ At(h, "dropConn_notify")
    /\ pc' = [pc EXCEPT ![h] = "dropConn_lock", ![<<"nt", ConnOf(h)>>] = "nt_range",
                        ![<<"od", ConnOf(h)>>] =
                            IF onDisconnect = "nil" THEN @ ELSE "od_run"]
    /\ hist' = [hist EXCEPT !.atDrop[ConnOf(h)] = {ch \in Chans : ConnOf(h) \in members[ch]}]
    /\ UNCHANGED <<ret, arg, res, connVars, regVars, envVars, otherVars>>

\* the goroutine of the disconnect hook runs the application's function
Disconnect_run(o) ==
    /\ At(o, "od_run")
    /\ Goto(o, "od_done")
    /\ hist' = Bump(hist, "disc", ConnOf(o))
    /\ UNCHANGED <<ret, arg, res, connVars, regVars, envVars, otherVars>>

\* dropConn: s.mu.Lock(); the delete that follows reads the map ...
dropConn_lock(h) ==
    /\ At(h, "dropConn_lock")
    /\ SLockFree
    /\ smu' = SLock(h)
    /\ snap' = [snap EXCEPT ![h] = connections]
    /\ UNCHANGED evt
    /\ Goto(h, "dropConn_del")
    /\ UNCHANGED <<ret, arg, res, connVars, connections, farVars, envVars, sdVars, ntVars, hist>>

DropConnDelNoBreak(h) ==
    /\ At(h, "dropConn_del")
    /\ connections' = snap[h] \ {ConnOf(h)}
    /\ snap' = [snap EXCEPT ![h] = {}]
    /\ UNCHANGED evt
    /\ smu' = SUnlock
    /\ Goto(h, "h_read")
    /\ hist' = Bump(hist, "dropped", ConnOf(h))
    /\ UNCHANGED <<ret, arg, res, connVars, farVars, envVars, sdVars, ntVars>>

\* ... and writes it: delete(s.connections, conn); s.mu.Unlock()
dropConn_del(h) ==
    /\ At(h, "dropConn_del")
    /\ connections' = snap[h] \ {ConnOf(h)}
    /\ snap' = [snap EXCEPT ![h] = {}]
    /\ UNCHANGED evt
    /\ smu' = SUnlock
    /\ Goto(h, "h_ret")
    /\ hist' = Bump(hist, "dropped", ConnOf(h))
    /\ UNCHANGED <<ret, arg, res, connVars, farVars, envVars, sdVars, ntVars>>

\* defer func() { _ = conn.Close() }()
Handler_return(h) ==
    /\ At(h, "h_ret")
    /\ sock' = [sock EXCEPT ![ConnOf(h)] = "closed"]
    /\ Goto(h, "h_done")
    /\ UNCHANGED <<ret, arg, res, cconn, cdone, cmu, writing, regVars, envVars, otherVars, hist>>

\* ------------------------------------------------------- Server.Shutdown
ShutdownLockNoMutex(p) ==
    /\ At(p, "Shutdown_lock")
    /\ wg' = Cardinality(connections)
    /\ pc' = [q \in Procs |->
                IF q = p THEN "Shutdown_wait"
                ELSE IF q \in Closers /\ ConnOf(q) \in connections THEN "sdg_check"
                ELSE pc[q]]
    /\ hist' = [hist EXCEPT !.sdK[p] = Cardinality(connections),
                             !.sdSet = @ \cup connections]
    /\ UNCHANGED <<ret, arg, res, connVars, regVars, sdone, ntVars, snapVars, farVars, envVars>>

\* s.mu.Lock(); defer s.mu.Unlock(); wg.Add(len(s.connections));
\* for c := range s.connections { go func(c *Conn) { ... }(c) }
Shutdown_lock(p) ==
    /\ At(p, "Shutdown_lock")
    /\ SLockFree
    /\ smu' = SLock(p)
    /\ wg' = Cardinality(connections)
    /\ pc' = [q \in Procs |->
                IF q = p THEN "Shutdown_wait"
                ELSE IF q \in Closers /\ ConnOf(q) \in connections THEN "sdg_check"
                ELSE pc[q]]
    /\ hist' = [hist EXCEPT !.sdK[p] = Cardinality(connections),
                             !.sdSet = @ \cup connections]
    /\ UNCHANGED <<ret, arg, res, connVars, connections, sdone, ntVars, snapVars, farVars, envVars>>

\* go func(c *Conn) { if c.conn != nil { _ = c.Close() } ...
Shutdown_close(g) ==
    /\ At(g, "sdg_check")
    /\ IF cconn[ConnOf(g)] # "nil"
         THEN Call(g, "Close_lock", ConnOf(g), "sdg_done")
         ELSE Goto(g, "sdg_done") /\ UNCHANGED <<ret, arg>>
    /\ UNCHANGED <<res, connVars, regVars, envVars, otherVars, hist>>

\* ... wg.Done() }(c)
Shutdown_done(g) ==
    /\ At(g, "sdg_done")
    /\ wg' = wg - 1
    /\ Goto(g, "off")
    /\ UNCHANGED <<ret, arg, res, connVars, regVars, sdone, ntVars, snapVars, farVars, envVars, hist>>

ShutdownNoWait(p) ==
    /\ At(p, "Shutdown_wait")
    /\ sdone' = TRUE
    /\ Goto(p, "Shutdown_ret")
    /\ UNCHANGED <<ret, arg, res, connVars, regVars, wg, ntVars, snapVars, farVars, envVars, hist>>

\* wg.Wait(); s.done = true
Shutdown_wait(p) ==
    /\ At(p, "Shutdown_wait")
    /\ wg = 0
    /\ sdone' = TRUE
    /\ Goto(p, "Shutdown_ret")
    /\ UNCHANGED <<ret, arg, res, connVars, regVars, wg, ntVars, snapVars, farVars, envVars, hist>>

\* return nil (the deferred s.mu.Unlock() runs)
Shutdown_return(p) ==
    /\ At(p, "Shutdown_ret")
    /\ smu' = SUnlock
    /\ Return(p, "nil")
    /\ hist' = [hist EXCEPT !.sdRets = @ + 1]
    /\ UNCHANGED <<connVars, connections, envVars, otherVars>>

\* ------------------------------------------------------- Server.Count
\* connect events (addConn has registered) and disconnect events (dropConn
\* has removed) that have happened
NAdded == Cardinality({c \in Conns : hist.added[c] > 0})
NDropped == Cardinality({c \in Conns : hist.dropped[c] > 0})

\* the number of clients whose dial has succeeded (the upgrade handshake is
\* done), or -1 once one of them has disconnected or had its socket closed
Dialed ==
    IF /\ \A h \in Handlers : pc[h] \in {"h_idle", "addConn_lock", "addConn_ins", "h_read"}
       /\ \A c \in Conns : sock[c] \in {"none", "open"}
    THEN Cardinality({c \in Conns : sock[c] = "open"})
    ELSE -1

\* s.mu.RLock(); defer s.mu.RUnlock()
Count_rlock(p) ==
    /\ At(p, "Count_rlock")
    /\ smu.w = None
    /\ smu' = [smu EXCEPT !.r = @ \cup {p}]
    /\ Goto(p, "Count_len")
    /\ UNCHANGED <<ret, arg, res, connVars, connections, envVars, otherVars, hist>>

\* return len(s.connections)
Count_len(p) ==
    /\ At(p, "Count_len")
    /\ smu' = [smu EXCEPT !.r = @ \ {p}]
    /\ Return(p, "nil")
    /\ hist' = [hist EXCEPT !.count[p] = Cardinality(connections),
                             !.countN[p] = NAdded,
                             !.countM[p] = NDropped,
                             !.dialed[p] = -1,
                             !.uncounted[p] =
                                 /\ hist.dialed[p] >= 0 /\ Dialed >= 0
                                 /\ Cardinality(connections) < hist.dialed[p]]
    /\ UNCHANGED <<connVars, connections, envVars, otherVars>>

\* ------------------------------------------ Server.Channel, Server.SendTo
\* the ids application code asks for: those of the channels made with
\* NewChannel, and one that no channel has
NoChannel == 0
ChannelIds == Chans \cup {NoChannel}

\* Server.Channel(id): s.mu.Lock(); defer s.mu.Unlock()
ServerChannel_lock(p) ==
    /\ At(p, "sChannel_lock")
    /\ SLockFree
    /\ smu' = SLock(p)
    /\ Goto(p, "sChannel_ret")
    /\ UNCHANGED <<ret, arg, res, connVars, connections, envVars, otherVars, hist>>

\* return s.channels[id]
ServerChannel_ret(p) ==
    /\ At(p, "sChannel_ret")
    /\ smu' = SUnlock
    /\ Return(p, IF arg[p] \in Chans THEN "channel" ELSE "nil")
    /\ UNCHANGED <<connVars, connections, envVars, otherVars, hist>>

\* Server.SendTo(id, name, message): s.mu.Lock(); defer s.mu.Unlock();
\* ch := s.Channel(id), which locks s.mu itself.  What follows the call,
\* ch.Emit(name, message) if ch != nil and return errors.New("no channel
\* found"), comes after a lock of a mutex the goroutine already holds.
SendTo_lock(p) ==
    /\ At(p, "SendTo_lock")
    /\ SLockFree
    /\ smu' = SLock(p)
    /\ Call(p, "sChannel_lock", arg[p], "SendTo_emit")
    /\ UNCHANGED <<res, connVars, connections, envVars, otherVars, hist>>

\* ------------------------------------------- dropConn's notifier goroutine
\* for _, dC := range s.delChan: the slice is read once, without s.mu
Notifier_range(n) ==
    /\ At(n, "nt_range")
    /\ ntList' = [ntList EXCEPT ![ConnOf(n)] = delChan]
    /\ Goto(n, IF delChan = <<>> THEN "off" ELSE "nt_send")
    /\ UNCHANGED <<ret, arg, res, connVars, regVars, sdVars, delChan, snapVars, farVars, envVars, hist>>

\* dC <- conn: the channels are unbuffered, so the send completes only when
\* the goroutine of that channel is in its select on the very same queue
Notifier_send(n) ==
    LET c == ConnOf(n)
        q == Head(ntList[c])
        g == <<"chg", q[1]>>
        rest == Tail(ntList[c])
    IN  /\ At(n, "nt_send")
        /\ pc[g] = "chg_recv"
        /\ grecv[q[1]] = q[2]
        /\ pc' = [pc EXCEPT ![n] = IF rest = <<>> THEN "off" ELSE "nt_send",
                            ![g] = "chg_lock"]
        /\ arg' = [arg EXCEPT ![g] = c]
        /\ ntList' = [ntList EXCEPT ![c] = rest]
        /\ UNCHANGED <<ret, res, connVars, regVars, sdVars, delChan, snapVars, farVars,
                       envVars, hist>>

\* ------------------------------------------------------------- Channel
\* the channel a goroutine is working on
ChOf(p) == IF p \in ChanGs THEN p[2] ELSE ech[p]

\* the connections leave the membership of channel ch: calls of Channel.Emit
\* in progress on ch no longer have them as members present throughout
Forget(h, ch, S) ==
    [h EXCEPT !.em = [p \in AppProcs |->
        IF h.em[p].on /\ ech[p] = ch THEN [h.em[p] EXCEPT !.kept = @ \ S]
        ELSE h.em[p]]]

\* newChannel's goroutine: select { case conn := <-c.delConn: the field is
\* read, without c.mu, each time the select is entered
Channel_select(g) ==
    /\ At(g, "chg_select")
    /\ grecv' = [grecv EXCEPT ![ChOf(g)] = chq[ChOf(g)]]
    /\ Goto(g, "chg_recv")
    /\ UNCHANGED <<ret, arg, res, connVars, regVars, sdVars, ntVars, snapVars, appVars, routeVars,
                   members, chq, chmu, callVars, envVars, hist>>

\* c.mu.Lock(); _ = conn.Close()
Channel_lock(g) ==
    /\ At(g, "chg_lock")
    /\ chmu[ChOf(g)] = None
    /\ chmu' = [chmu EXCEPT ![ChOf(g)] = g]
    /\ Call(g, "Close_lock", arg[g], "chg_del")
    /\ UNCHANGED <<res, connVars, regVars, sdVars, ntVars, snapVars, appVars, routeVars,
                   members, chq, grecv, callVars, envVars, hist>>

\* delete(c.connections, conn); c.mu.Unlock()
Channel_del(g) ==
    /\ At(g, "chg_del")
    /\ members' = [members EXCEPT ![ChOf(g)] = @ \ {arg[g]}]
    /\ chmu' = [chmu EXCEPT ![ChOf(g)] = None]
    /\ Goto(g, "chg_select")
    /\ hist' = Forget(hist, ChOf(g), {arg[g]})
    /\ UNCHANGED <<ret, arg, res, connVars, regVars, sdVars, ntVars, snapVars, appVars, routeVars,
                   chq, grecv, callVars, envVars>>

\* the record of the channel's last two Add and Remove calls made by
\* application code itself, the latest first, with what Count() would have
\* returned just before and just after the change of the map
Logged(h, p, kind, c, S) ==
    IF p \in AppProcs /\ ret[p] = "idle"
    THEN [h EXCEPT !.ops =
            <<[kind |-> kind, ch |-> ChOf(p), c |-> c,
               was |-> c \in members[ChOf(p)],
               live |-> cconn[c] # "nil",
               before |-> Cardinality({x \in members[ChOf(p)] : cconn[x] # "nil"}),
               after |-> Cardinality({x \in S : cconn[x] # "nil"})]>>
            \o (IF @ = <<>> THEN <<>> ELSE <<@[1]>>)]
    ELSE h

AddInsKeep(p) ==
    /\ At(p, "Add_ins")
    /\ members' = members
    /\ chmu' = [chmu EXCEPT ![ChOf(p)] = None]
    /\ Return(p, "nil")
    /\ hist' = Logged(hist, p, "add", arg[p], members[ChOf(p)])
    /\ UNCHANGED <<connVars, regVars, sdVars, ntVars, snapVars, appVars, routeVars,
                   chq, grecv, callVars, envVars>>

\* Channel.Add: c.mu.Lock()
Add_lock(p) ==
    /\ At(p, "Add_lock")
    /\ chmu[ChOf(p)] = None
    /\ chmu' = [chmu EXCEPT ![ChOf(p)] = p]
    /\ Goto(p, "Add_ins")
    /\ UNCHANGED <<ret, arg, res, connVars, regVars, sdVars, ntVars, snapVars, appVars, routeVars,
                   members, chq, grecv, callVars, envVars, hist>>

\* c.connections[conn] = true; c.mu.Unlock()
Add_ins(p) ==
    /\ At(p, "Add_ins")
    /\ members' = [members EXCEPT ![ChOf(p)] = @ \cup {arg[p]}]
    /\ chmu' = [chmu EXCEPT ![ChOf(p)] = None]
    /\ Return(p, "nil")
    /\ hist' = Logged(hist, p, "add", arg[p], members[ChOf(p)] \cup {arg[p]})
    /\ UNCHANGED <<connVars, regVars, sdVars, ntVars, snapVars, appVars, routeVars,
                   chq, grecv, callVars, envVars>>

\* Channel.Remove: c.mu.Lock()
Remove_lock(p) ==
    /\ At(p, "Remove_lock")
    /\ chmu[ChOf(p)] = None
    /\ chmu' = [chmu EXCEPT ![ChOf(p)] = p]
    /\ Goto(p, "Remove_del")
    /\ UNCHANGED <<ret, arg, res, connVars, regVars, sdVars, ntVars, snapVars, appVars, routeVars,
                   members, chq, grecv, callVars, envVars, hist>>

\* delete(c.connections, conn); c.mu.Unlock()
Remove_del(p) ==
    /\ At(p, "Remove_del")
    /\ members' = [members EXCEPT ![ChOf(p)] = @ \ {arg[p]}]
    /\ chmu' = [chmu EXCEPT ![ChOf(p)] = None]
    /\ Return(p, "nil")
    /\ hist' = Logged(Forget(hist, ChOf(p), {arg[p]}), p, "remove", arg[p],
                       members[ChOf(p)] \ {arg[p]})
    /\ UNCHANGED <<connVars, regVars, sdVars, ntVars, snapVars, appVars, routeVars,
                   chq, grecv, callVars, envVars>>

PurgeLockNoMutex(p) ==
    /\ At(p, "Purge_lock")
    /\ Goto(p, "Purge_body")
    /\ UNCHANGED <<ret, arg, res, connVars, regVars, sdVars, ntVars, snapVars, appVars, routeVars,
                   members, chq, grecv, chmu, callVars, envVars, hist>>

\* Channel.Purge: c.mu.Lock()
Purge_lock(p) ==
    /\ At(p, "Purge_lock")
    /\ chmu[ChOf(p)] = None
    /\ chmu' = [chmu EXCEPT ![ChOf(p)] = p]
    /\ Goto(p, "Purge_body")
    /\ UNCHANGED <<ret, arg, res, connVars, regVars, sdVars, ntVars, snapVars, appVars, routeVars,
                   members, chq, grecv, callVars, envVars, hist>>

\* c.connections = make(map[*Conn]bool); c.delConn = make(chan *Conn);
\* c.mu.Unlock().  A range over the old map that has released the mutex goes
\* on over the old map, which nothing writes any more.
Purge_body(p) ==
    LET ch == ChOf(p) IN
    /\ At(p, "Purge_body")
    /\ members' = [members EXCEPT ![ch] = {}]
    /\ chq' = [chq EXCEPT ![ch] = @ + 1]
    /\ iter' = [q \in DOMAIN iter |->
                  IF iter[q].on /\ ech[q] = ch /\ iter[q].live
                  THEN [iter[q] EXCEPT !.old = members[ch], !.live = FALSE]
                  ELSE iter[q]]
    /\ chmu' = [chmu EXCEPT ![ch] = None]
    /\ Return(p, "nil")
    /\ hist' = Forget(hist, ch, members[ch])
    /\ UNCHANGED <<connVars, regVars, sdVars, ntVars, snapVars, appVars, routeVars,
                   grecv, ech, envVars>>

\* the map a range of Channel.Emit is over, as it is now
Ranged(p) == IF iter[p].live THEN members[ech[p]] ELSE iter[p].old

\* Channel.Emit: c.mu.Lock(); for con := range c.connections
ChannelEmit_lock(p) ==
    /\ At(p, "chEmit_lock")
    /\ chmu[ech[p]] = None
    /\ chmu' = [chmu EXCEPT ![ech[p]] = p]
    /\ iter' = [iter EXCEPT ![p] = [on |-> TRUE, base |-> members[ech[p]],
                                    seen |-> {}, old |-> {}, live |-> TRUE]]
    /\ Goto(p, "chEmit_range")
    /\ hist' = [hist EXCEPT !.em[p] =
                  [on |-> TRUE, over |-> FALSE, kept |-> members[ech[p]],
                   failed |-> {}, stale |-> {}, wrote |-> [c \in Conns |-> 0]]]
    /\ UNCHANGED <<ret, arg, res, connVars, regVars, sdVars, ntVars, snapVars, appVars, routeVars,
                   members, chq, grecv, ech, envVars>>

\* the range produces an entry not produced yet: con.Emit(name, data), which
\* is json.Marshal and Conn.Write
ChannelEmit_next(p, con) ==
    /\ At(p, "chEmit_range")
    /\ con \in Ranged(p) \ iter[p].seen
    /\ iter' = [iter EXCEPT ![p].seen = @ \cup {con}]
    /\ Call(p, "Write_lock", con, "chEmit_wrote")
    /\ UNCHANGED <<res, connVars, regVars, sdVars, ntVars, snapVars, appVars, routeVars,
                   chanVars, ech, envVars, hist>>

\* the range ends: every entry that was in the map when it began and is
\* still there has been produced (an entry added meanwhile may be skipped);
\* c.mu.Unlock()
ChannelEmit_end(p) ==
    /\ At(p, "chEmit_range")
    /\ (Ranged(p) \cap iter[p].base) \subseteq iter[p].seen
    /\ chmu' = [chmu EXCEPT ![ech[p]] = None]
    /\ iter' = [iter EXCEPT ![p] = NoIter]
    /\ Goto(p, "idle")
    /\ hist' = [hist EXCEPT !.em[p].on = FALSE, !.em[p].over = TRUE,
                             !.em[p].stale = hist.em[p].failed \cap members[ech[p]]]
    /\ UNCHANGED <<ret, arg, res, connVars, regVars, sdVars, ntVars, snapVars, appVars, routeVars,
                   members, chq, grecv, ech, envVars>>

\* if err := con.Emit(name, data); err != nil { _ = con.Close()
ChannelEmit_wrote(p) ==
    /\ At(p, "chEmit_wrote")
    /\ IF res[p] = "err"
         THEN /\ Call(p, "Close_lock", arg[p], "chEmit_unlock")
              /\ hist' = [hist EXCEPT !.em[p].failed = @ \cup {arg[p]}]
         ELSE /\ Goto(p, "chEmit_range")
              /\ hist' = [hist EXCEPT !.em[p].wrote[arg[p]] = @ + 1]
              /\ UNCHANGED <<ret, arg>>
    /\ UNCHANGED <<res, connVars, regVars, sdVars, ntVars, snapVars, farVars, envVars>>

\* c.mu.Unlock(); c.Remove(con)
ChannelEmit_unlock(p) ==
    /\ At(p, "chEmit_unlock")
    /\ chmu' = [chmu EXCEPT ![ech[p]] = None]
    /\ Call(p, "Remove_lock", arg[p], "chEmit_relock")
    /\ UNCHANGED <<res, connVars, regVars, sdVars, ntVars, snapVars, appVars, routeVars,
                   members, chq, grecv, callVars, envVars, hist>>

\* c.mu.Lock(), and the range goes on
ChannelEmit_relock(p) ==
    /\ At(p, "chEmit_relock")
    /\ chmu[ech[p]] = None
    /\ chmu' = [chmu EXCEPT ![ech[p]] = p]
    /\ Goto(p, "chEmit_range")
    /\ UNCHANGED <<ret, arg, res, connVars, regVars, sdVars, ntVars, snapVars, appVars, routeVars,
                   members, chq, grecv, callVars, envVars, hist>>

\* ------------------------------------------------------- Server.Channels
\* s.mu.RLock(); defer s.mu.RUnlock(); for _, c := range s.channels
Channels_rlock(p) ==
    /\ At(p, "Channels_rlock")
    /\ smu.w = None
    /\ smu' = [smu EXCEPT !.r = @ \cup {p}]
    /\ ech' = [ech EXCEPT ![p] = 1]
    /\ Goto(p, "Channels_count")
    /\ UNCHANGED <<ret, arg, res, connVars, connections, envVars, sdVars, ntVars, snapVars,
                   appVars, chanVars, iter, routeVars, hist>>

\* if c.Count() != 0, where Count begins with c.mu.Lock()
Channels_count(p) ==
    /\ At(p, "Channels_count")
    /\ chmu[ech[p]] = None
    /\ chmu' = [chmu EXCEPT ![ech[p]] = p]
    /\ Goto(p, "Channels_counted")
    /\ UNCHANGED <<ret, arg, res, connVars, regVars, sdVars, ntVars, snapVars, appVars, routeVars,
                   members, chq, grecv, callVars, envVars, hist>>

ChannelsCountedKeepLock(p) ==
    /\ At(p, "Channels_counted")
    /\ IF ech[p] < NChans
         THEN /\ ech' = [ech EXCEPT ![p] = @ + 1]
              /\ Goto(p, "Channels_count")
              /\ UNCHANGED smu
         ELSE /\ Goto(p, "idle")
              /\ UNCHANGED <<smu, ech>>
    /\ UNCHANGED <<ret, arg, res, connVars, connections, envVars, sdVars, ntVars, snapVars,
                   appVars, chanVars, iter, routeVars, hist>>

\* Count's range and its deferred c.mu.Unlock(); the next channel, or
\* return list with the deferred s.mu.RUnlock()
Channels_counted(p) ==
    /\ At(p, "Channels_counted")
    /\ chmu' = [chmu EXCEPT ![ech[p]] = None]
    /\ IF ech[p] < NChans
         THEN /\ ech' = [ech EXCEPT ![p] = @ + 1]
              /\ Goto(p, "Channels_count")
              /\ UNCHANGED smu
         ELSE /\ smu' = [smu EXCEPT !.r = @ \ {p}]
              /\ Goto(p, "idle")
              /\ UNCHANGED ech
    /\ UNCHANGED <<ret, arg, res, connVars, connections, envVars, sdVars, ntVars, snapVars,
                   appVars, members, chq, grecv, iter, routeVars, hist>>

\* Channel.Count: c.mu.Lock(); the members whose con.conn is not nil
ChannelCount(ch) == Cardinality({c \in members[ch] : cconn[c] # "nil"})

\* Channel.Count: c.mu.Lock(); defer c.mu.Unlock()
ChannelCount_lock(p) ==
    /\ At(p, "chCount_lock")
    /\ chmu[ech[p]] = None
    /\ chmu' = [chmu EXCEPT ![ech[p]] = p]
    /\ Goto(p, "chCount_range")
    /\ UNCHANGED <<ret, arg, res, connVars, regVars, sdVars, ntVars, snapVars, appVars, routeVars,
                   members, chq, grecv, callVars, envVars, hist>>

\* for con := range c.connections { if con.conn != nil { count++ } };
\* return count
ChannelCount_range(p) ==
    LET ch == ech[p] IN
    /\ At(p, "chCount_range")
    /\ chmu' = [chmu EXCEPT ![ch] = None]
    /\ Goto(p, "idle")
    /\ hist' = [hist EXCEPT !.chCounted[p] =
                  [done |-> TRUE, n |-> ChannelCount(ch),
                   closed |-> {c \in members[ch] : cconn[c] # "nil" /\ sock[c] = "closed"}]]
    /\ UNCHANGED <<ret, arg, res, connVars, regVars, sdVars, ntVars, snapVars, appVars, routeVars,
                   members, chq, grecv, callVars, envVars>>

\* the OnConnect hook addConn started with "go": ch.Add(c)
Hook_run(o) ==
    /\ At(o, "hook_run")
    /\ \E ch \in Chans :
          /\ ech' = [ech EXCEPT ![o] = ch]
          /\ Call(o, "Add_lock", ConnOf(o), "off")
    /\ UNCHANGED <<res, connVars, regVars, sdVars, ntVars, snapVars, appVars, routeVars,
                   chanVars, iter, envVars, hist>>

\* ------------------------------------------------- Server.Run, Server.Emit
\* the goroutine the next broadcast is handed to
FreeFan == <<"fan", CHOOSE i \in 1..MaxOps :
                       /\ pc[<<"fan", i>>] = "off"
                       /\ \A j \in 1..(i - 1) : pc[<<"fan", j>>] # "off">>

\* Emit's s.broadcast <- Message{...} meets Run's case msg := <-s.broadcast,
\* which starts the fan-out with "go" and is back in its select
Run_broadcast(p) ==
    /\ At(p, "Emit_send")
    /\ pc[Runner] = "run_select"
    /\ \E i \in 1..MaxOps : pc[<<"fan", i>>] = "off"
    /\ pc' = [pc EXCEPT ![p] = "idle", ![FreeFan] = "fan_rlock"]
    /\ hist' = [hist EXCEPT !.fanLate[FreeFan] = hist.emLate[p]]
    /\ UNCHANGED <<ret, arg, res, connVars, regVars, envVars, otherVars>>

RunCancelledReturn(r) ==
    /\ At(r, "run_select")
    /\ ctxDone
    /\ Goto(r, "run_done")
    /\ UNCHANGED <<ret, arg, res, connVars, regVars, envVars, otherVars, hist>>

\* Run's case <-ctx.Done(): if err := s.Shutdown(); ...; return
Run_cancelled(r) ==
    /\ At(r, "run_select")
    /\ ctxDone
    /\ Call(r, "Shutdown_lock", 0, "run_done")
    /\ UNCHANGED <<res, connVars, regVars, envVars, otherVars, hist>>

\* s.mu.RLock(); for c := range s.connections
Fan_rlock(f) ==
    /\ At(f, "fan_rlock")
    /\ smu.w = None
    /\ smu' = [smu EXCEPT !.r = @ \cup {f}]
    /\ iter' = [iter EXCEPT ![f] = [NoIter EXCEPT !.on = TRUE, !.base = connections]]
    /\ Goto(f, "fan_range")
    /\ hist' = [hist EXCEPT !.fan[f] = [NoFan EXCEPT !.on = TRUE, !.reg = connections]]
    /\ UNCHANGED <<ret, arg, res, connVars, connections, sdVars, ntVars, snapVars, appVars, routeVars,
                   chanVars, ech, envVars>>

\* _ = c.Emit(msg.Name, msg.Data), which is json.Marshal and Conn.Write
Fan_next(f, c) ==
    /\ At(f, "fan_range")
    /\ c \in connections \ iter[f].seen
    /\ iter' = [iter EXCEPT ![f].seen = @ \cup {c}]
    /\ Call(f, "Write_lock", c, "fan_range")
    /\ hist' = [hist EXCEPT !.fan[f].att[c] = @ + 1]
    /\ UNCHANGED <<res, connVars, regVars, sdVars, ntVars, snapVars, appVars, routeVars,
                   chanVars, ech, envVars>>

\* the range is over: s.mu.RUnlock()
Fan_end(f) ==
    /\ At(f, "fan_range")
    /\ connections \subseteq iter[f].seen
    /\ smu' = [smu EXCEPT !.r = @ \ {f}]
    /\ iter' = [iter EXCEPT ![f] = NoIter]
    /\ Goto(f, "fan_done")
    /\ hist' = [hist EXCEPT !.fan[f].on = FALSE, !.fan[f].over = TRUE]
    /\ UNCHANGED <<ret, arg, res, connVars, connections, sdVars, ntVars, snapVars, appVars, routeVars,
                   chanVars, ech, envVars>>

\* --------------------------------------------- Server.On, processMessage
\* On: s.mu.Lock()
On_lock(p) ==
    /\ At(p, "On_lock")
    /\ SLockFree
    /\ smu' = SLock(p)
    /\ Goto(p, "On_set")
    /\ UNCHANGED <<ret, arg, res, connVars, connections, envVars, otherVars, hist>>

\* s.callbacks[name] = f; s.mu.Unlock()
On_set(p) ==
    /\ At(p, "On_set")
    /\ callbacks' = callbacks \cup {arg[p]}
    /\ smu' = SUnlock
    /\ Return(p, "nil")
    /\ UNCHANGED <<connVars, connections, envVars, sdVars, ntVars, snapVars, appVars,
                   chanVars, callVars, frame, loop, hist>>

\* read loop: the client has sent a Text, Binary or Continuation frame.
\* ws.CheckHeader refuses a data frame that is not a Continuation while a
\* message is pending and a Continuation while none is; the switch on the
\* opcode updates state and textPending and chooses the reader; the payload
\* is read, through utf8Reader for text; with utf8Fin set an invalid
\* utf8Reader is an error; an error drops the connection, otherwise
\* s.processMessage(ctx, connection, header, payload)
Handler_data(h, op, fin, b, u) ==
    LET l == loop[h]
        refused == (l.frag /\ op # "cont") \/ (~l.frag /\ op = "cont")
        asText == op = "text" \/ (op = "cont" /\ l.textPending)
        st0 == IF op = "text" THEN "accept" ELSE l.utf8
        rd == IF asText THEN Utf8Read(st0, u) ELSE [err |-> FALSE, st |-> st0]
        utf8Fin == op \in {"text", "cont"} /\ fin
        l2 == [frag |-> IF op = "cont" THEN (IF fin THEN FALSE ELSE l.frag)
                        ELSE (IF fin THEN l.frag ELSE TRUE),
               textPending |-> CASE op = "cont" -> (IF fin THEN FALSE ELSE l.textPending)
                                 [] op = "text" -> (IF fin THEN l.textPending ELSE TRUE)
                                 [] OTHER -> l.textPending,
               utf8 |-> rd.st]
        err == rd.err \/ (utf8Fin /\ rd.st # "accept")
        m2 == WithFrame(hist.msg[h], op, fin, b, u)
    IN  /\ At(h, "h_read")
        /\ sock[ConnOf(h)] = "open"
        /\ budget > 0
        /\ budget' = budget - 1
        /\ IF refused
             THEN /\ Goto(h, "dropConn_notify")
                  /\ hist' = [hist EXCEPT !.cause[h] = "header"]
                  /\ UNCHANGED <<frame, loop>>
             ELSE /\ loop' = [loop EXCEPT ![h] = l2]
                  /\ IF err
                       THEN /\ Goto(h, "dropConn_notify")
                            /\ hist' = [hist EXCEPT !.cause[h] = "utf8", !.msg[h] = m2]
                            /\ UNCHANGED frame
                       ELSE /\ frame' = [frame EXCEPT ![h] =
                                          [op |-> op, fin |-> fin, b |-> b, u |-> u]]
                            /\ Goto(h, "pm_route")
                            /\ hist' = [hist EXCEPT !.last[h] =
                                          [NoDispatch EXCEPT !.op = op, !.fin = fin, !.b = b,
                                                             !.u = u, !.cbs = callbacks],
                                                     !.echoed[h] = <<>>,
                                                     !.msg[h] = [m2 EXCEPT !.disp = @ + 1]]
        /\ UNCHANGED <<ret, arg, res, connVars, regVars, sdVars, ntVars, snapVars, appVars,
                       chanVars, callVars, callbacks>>

\* read loop: a Text or Binary message that arrives whole in one frame, with
\* valid UTF-8 in it
Handler_message(h, op, b) ==
    Handler_data(h, op, TRUE, b, IF b.kind = "empty" THEN "none" ELSE "ok")

ProcessMessageNoLookup(h) ==
    /\ At(h, "pm_route")
    /\ Call(h, "Write_lock", ConnOf(h), "h_read")
    /\ hist' = [hist EXCEPT !.last[h].done = TRUE, !.last[h].raw = @ + 1]
    /\ UNCHANGED <<res, connVars, regVars, envVars, otherVars>>

ProcessMessageDropUnknown(h) ==
    LET f == frame[h]
        msg == jsonUnmarshal(f.b)
    IN  /\ At(h, "pm_route")
        /\ IF ~msg.err /\ msg.Name \in callbacks
             THEN /\ Goto(h, "h_read")
                  /\ hist' = [hist EXCEPT !.last[h].done = TRUE,
                                           !.last[h].cb = @ + 1,
                                           !.last[h].name = msg.Name,
                                           !.last[h].conn = ConnOf(h),
                                           !.last[h].data = jsonMarshal(msg.Data)]
             ELSE /\ Goto(h, "h_read")
                  /\ hist' = [hist EXCEPT !.last[h].done = TRUE]
        /\ UNCHANGED <<ret, arg, res, connVars, regVars, envVars, otherVars>>

ProcessMessageDropOnError(h) ==
    LET f == frame[h]
        msg == jsonUnmarshal(f.b)
    IN  /\ At(h, "pm_route")
        /\ IF f.b.kind # "empty" /\ f.op \in {"binary", "text"}
              /\ ~msg.err /\ msg.Name \in callbacks
             THEN /\ Goto(h, "h_read")
                  /\ hist' = [hist EXCEPT !.last[h].done = TRUE,
                                           !.last[h].cb = @ + 1,
                                           !.last[h].name = msg.Name,
                                           !.last[h].conn = ConnOf(h),
                                           !.last[h].data = jsonMarshal(msg.Data)]
             ELSE /\ Goto(h, IF f.b.kind = "empty" THEN "h_read" ELSE "dropConn_notify")
                  /\ hist' = [hist EXCEPT !.last[h].done = TRUE, !.last[h].raw = @ + 1,
                                           !.appErrs[h] = IF f.b.kind = "empty" THEN @
                                                          ELSE @ + 1]
        /\ UNCHANGED <<ret, arg, res, connVars, regVars, envVars, otherVars>>

ProcessMessageEchoAsText(h) ==
    LET f == frame[h]
        msg == jsonUnmarshal(f.b)
    IN  /\ At(h, "pm_route")
        /\ IF f.b.kind # "empty" /\ f.op \in {"binary", "text"}
              /\ ~msg.err /\ msg.Name \in callbacks
             THEN /\ Goto(h, "h_read")
                  /\ hist' = [hist EXCEPT !.last[h].done = TRUE,
                                           !.last[h].cb = @ + 1,
                                           !.last[h].name = msg.Name,
                                           !.last[h].conn = ConnOf(h),
                                           !.last[h].data = jsonMarshal(msg.Data)]
                  /\ UNCHANGED <<ret, arg, frame>>
             ELSE /\ Call(h, "Write_lock", ConnOf(h), "h_read")
                  /\ frame' = [frame EXCEPT ![h].op = "text"]
                  /\ hist' = [hist EXCEPT !.last[h].done = TRUE, !.last[h].raw = @ + 1]
        /\ UNCHANGED <<res, connVars, regVars, envVars, sdVars, ntVars, snapVars, appVars,
                       chanVars, callVars, callbacks, loop>>

\* processMessage: an empty payload, or an opcode that is neither Binary nor
\* Text, goes to s.onMessage; otherwise the payload is unmarshalled, and if
\* that works and s.callbacks[msg.Name] != nil the callback is called with
\* &Message{Name: msg.Name, Data: json.Marshal(msg.Data)}; otherwise it goes
\* to s.onMessage, which New() sets to c.Write(h, b).  s.callbacks is read
\* without s.mu.
processMessage(h) ==
    LET f == frame[h]
        msg == jsonUnmarshal(f.b)
    IN  /\ At(h, "pm_route")
        /\ IF f.b.kind # "empty" /\ f.op \in {"binary", "text"}
              /\ ~msg.err /\ msg.Name \in callbacks
             THEN /\ Goto(h, "h_read")
                  /\ hist' = [hist EXCEPT !.last[h].done = TRUE,
                                           !.last[h].cb = @ + 1,
                                           !.last[h].name = msg.Name,
                                           !.last[h].conn = ConnOf(h),
                                           !.last[h].data = jsonMarshal(msg.Data)]
                  /\ UNCHANGED <<ret, arg>>
             ELSE /\ Call(h, "Write_lock", ConnOf(h), "h_read")
                  /\ hist' = [hist EXCEPT !.last[h].done = TRUE, !.last[h].raw = @ + 1,
                                           !.appErrs[h] =
                                               IF f.b.kind # "empty"
                                                  /\ f.op \in {"binary", "text"}
                                               THEN @ + 1 ELSE @]
        /\ UNCHANGED <<res, connVars, regVars, envVars, otherVars>>

\* processMessage's lookup s.callbacks[msg.Name] takes no lock, so it can
\* overlap the map write that On does under s.mu: a data race on a Go map.
\* Besides seeing the old or the new handler (processMessage above), the
\* runtime may detect it and throw "concurrent map read and map write",
\* which no recover() catches: the process ends.
processMessage_race(h) ==
    LET f == frame[h]
        msg == jsonUnmarshal(f.b)
    IN  /\ At(h, "pm_route")
        /\ f.b.kind # "empty" /\ f.op \in {"binary", "text"} /\ ~msg.err
        /\ \E p \in Procs : pc[p] = "On_set"
        /\ pc' = [pc EXCEPT ![h] = "fatal"]
        /\ hist' = [hist EXCEPT !.panics = @ \cup {h}]
        /\ UNCHANGED <<ret, arg, res, connVars, regVars, envVars, otherVars>>

\* processMessage when the callbacks registered are the relay of the echo
\* server, func(c, msg) { _ = c.Emit(msg.Name, msg.Data) }: the callback is
\* called with Data: json.Marshal(msg.Data), a []byte, and emits it
processMessage_relay(h) ==
    LET f == frame[h]
        msg == jsonUnmarshal(f.b)
    IN  /\ At(h, "pm_route")
        /\ Call(h, "Write_lock", ConnOf(h), "h_read")
        /\ IF f.b.kind # "empty" /\ f.op \in {"binary", "text"}
              /\ ~msg.err /\ msg.Name \in callbacks
             THEN /\ frame' = [frame EXCEPT ![h] = connEmit(msg.Name, jsonMarshal(msg.Data))]
                  /\ hist' = [hist EXCEPT !.last[h].done = TRUE,
                                           !.last[h].cb = @ + 1,
                                           !.last[h].name = msg.Name,
                                           !.last[h].conn = ConnOf(h),
                                           !.last[h].data = jsonMarshal(msg.Data)]
             ELSE /\ hist' = [hist EXCEPT !.last[h].done = TRUE, !.last[h].raw = @ + 1,
                                           !.appErrs[h] =
                                               IF f.b.kind # "empty"
                                                  /\ f.op \in {"binary", "text"}
                                               THEN @ + 1 ELSE @]
                  /\ UNCHANGED frame
        /\ UNCHANGED <<res, connVars, regVars, envVars, sdVars, ntVars, snapVars, appVars,
                       chanVars, callVars, callbacks, loop>>

\* ------------- Conn.Write of the event-loop variant (explicit Lock/Unlock)
\* c.mu.Lock()
WriteV_lock(p) ==
    /\ At(p, "WriteV_lock")
    /\ cmu[arg[p]] = None
    /\ cmu' = [cmu EXCEPT ![arg[p]] = p]
    /\ Goto(p, "WriteV_hdr")
    /\ UNCHANGED <<ret, arg, res, cconn, sock, cdone, writing, regVars, envVars, otherVars, hist>>

\* c.conn.SetWriteDeadline(...); err := ws.WriteHeader(c.conn, h);
\* if err != nil { return err }: the mutex stays locked
WriteV_hdr(p) ==
    /\ At(p, "WriteV_hdr")
    /\ IF sock[arg[p]] = "open"
         THEN /\ Goto(p, "WriteV_body")
              /\ writing' = [writing EXCEPT ![arg[p]] = @ \cup {p}]
              /\ UNCHANGED <<ret, arg, res>>
         ELSE /\ Return(p, "err")
              /\ UNCHANGED writing
    /\ UNCHANGED <<cconn, sock, cdone, cmu, regVars, envVars, otherVars, hist>>

\* _, err = c.conn.Write(b); c.mu.Unlock(); return err
WriteV_body(p) ==
    /\ At(p, "WriteV_body")
    /\ writing' = [writing EXCEPT ![arg[p]] = @ \ {p}]
    /\ cmu' = [cmu EXCEPT ![arg[p]] = None]
    /\ Return(p, IF sock[arg[p]] = "open" THEN "nil" ELSE "err")
    /\ UNCHANGED <<cconn, sock, cdone, regVars, envVars, otherVars, hist>>

\* application code holding a *Conn of the event-loop variant calls
\* c.Write(h, b), directly or through c.Emit or c.Send
App_WriteV(p, c) ==
    /\ At(p, "idle")
    /\ budget > 0
    /\ budget' = budget - 1
    /\ Call(p, "WriteV_lock", c, "idle")
    /\ UNCHANGED <<res, connVars, regVars, otherVars, hist>>

\* ------------------------------------- the event-loop variant of the Server
\* (Create, Run with addConn, delConn and done channels; Conn.Close is
\* c.conn.Close() and nothing else)
\* Handler: the read fails on the closed socket: s.delConn <- connection
EvHandler_readError(h) ==
    /\ At(h, "h_read")
    /\ sock[ConnOf(h)] # "open"
    /\ Goto(h, "ev_delsend")
    /\ hist' = [hist EXCEPT !.cause[h] = "read"]
    /\ UNCHANGED <<ret, arg, res, connVars, regVars, envVars, otherVars>>

\* the send on s.delConn meets Run's case conn := <-s.delConn; Handler
\* returns; Run starts the goroutine that ranges over s.delChan (the
\* disconnect hook is nil) and goes on to s.mu.Lock()
EvRun_delConn(h) ==
    /\ At(h, "ev_delsend")
    /\ pc[Runner] = "ev_select"
    /\ pc' = [pc EXCEPT ![h] = "h_ret", ![Runner] = "ev_del",
                          ![<<"nt", ConnOf(h)>>] = "nt_range"]
    /\ arg' = [arg EXCEPT ![Runner] = ConnOf(h)]
    /\ UNCHANGED <<ret, res, connVars, regVars, envVars, otherVars, hist>>

\* s.mu.Lock(); delete(s.connections, conn); s.mu.Unlock(); back to select
EvRun_del(r) ==
    /\ At(r, "ev_del")
    /\ SLockFree
    /\ connections' = connections \ {arg[r]}
    /\ Goto(r, "ev_select")
    /\ hist' = Bump(hist, "dropped", arg[r])
    /\ UNCHANGED <<ret, arg, res, connVars, smu, envVars, otherVars>>

\* Run's case <-s.done: break, which leaves the select, not the for loop
EvRun_done(r) ==
    /\ At(r, "ev_select")
    /\ evt.done > 0
    /\ evt' = [evt EXCEPT !.done = @ - 1]
    /\ UNCHANGED <<procVars, connVars, regVars, envVars, sdVars, ntVars, snap, farVars, hist>>

\* Shutdown: s.mu.RLock(); defer s.mu.RUnlock(); l := len(s.connections);
\* wg.Add(l); for c := range s.connections { go func(c) {...}(c) }
EvShutdown_rlock(p) ==
    /\ At(p, "EvShutdown_rlock")
    /\ smu.w = None
    /\ smu' = [smu EXCEPT !.r = @ \cup {p}]
    /\ iter' = [iter EXCEPT ![p] = [NoIter EXCEPT !.on = TRUE, !.base = connections]]
    /\ Goto(p, "EvShutdown_wait")
    /\ UNCHANGED <<ret, arg, res, connVars, connections, envVars, sdVars, ntVars, snapVars,
                   appVars, chanVars, ech, routeVars, hist>>

\* one of the goroutines of Shutdown: _ = c.Close(); wg.Done()
EvShutdown_close(p, c) ==
    /\ At(p, "EvShutdown_wait")
    /\ c \in iter[p].base \ iter[p].seen
    /\ iter' = [iter EXCEPT ![p].seen = @ \cup {c}]
    /\ sock' = [sock EXCEPT ![c] = "closed"]
    /\ hist' = Bump(hist, "sockCloses", c)
    /\ UNCHANGED <<procVars, cconn, cdone, cmu, writing, regVars, envVars, sdVars, ntVars,
                   snapVars, appVars, chanVars, ech, routeVars>>

\* wg.Wait(); s.done <- true, a send on a channel of capacity EvDoneCap;
\* time.Sleep; return nil with the deferred RUnlock
EvShutdown_done(p) ==
    /\ At(p, "EvShutdown_wait")
    /\ iter[p].seen = iter[p].base
    /\ evt.done < EvDoneCap
    /\ evt' = [evt EXCEPT !.done = @ + 1]
    /\ smu' = [smu EXCEPT !.r = @ \ {p}]
    /\ iter' = [iter EXCEPT ![p] = NoIter]
    /\ Return(p, "nil")
    /\ hist' = [hist EXCEPT !.sdRets = @ + 1]
    /\ UNCHANGED <<connVars, connections, envVars, sdVars, ntVars, snap,
                   appVars, chanVars, ech, routeVars>>

\* application code calls Shutdown() of the event-loop Server:
\* s.shutdown = true
App_EvShutdown(p) ==
    /\ At(p, "idle")
    /\ budget > 0
    /\ budget' = budget - 1
    /\ evt' = [evt EXCEPT !.shutdown = TRUE]
    /\ Call(p, "EvShutdown_rlock", 0, "idle")
    /\ UNCHANGED <<res, connVars, regVars, sdVars, ntVars, snap, farVars, hist>>

\* ------------------------------------------------------- environment
\* application code calls s.Shutdown()
App_Shutdown(p) ==
    /\ At(p, "idle")
    /\ budget > 0
    /\ budget' = budget - 1
    /\ Call(p, "Shutdown_lock", 0, "idle")
    /\ UNCHANGED <<res, connVars, regVars, otherVars, hist>>

\* application code calls s.Channels()
App_Channels(p) ==
    /\ At(p, "idle")
    /\ budget > 0
    /\ budget' = budget - 1
    /\ Goto(p, "Channels_rlock")
    /\ UNCHANGED <<ret, arg, res, connVars, regVars, otherVars, hist>>

\* application code calls s.Count()
App_Count(p) ==
    /\ At(p, "idle")
    /\ budget > 0
    /\ budget' = budget - 1
    /\ Call(p, "Count_rlock", 0, "idle")
    /\ hist' = [hist EXCEPT !.dialed[p] = Dialed]
    /\ UNCHANGED <<res, connVars, regVars, otherVars>>

\* the peer goes away: later writes to the socket fail
Peer_break(c) ==
    /\ ~Crashed
    /\ sock[c] = "open"
    /\ sock' = [sock EXCEPT ![c] = "broken"]
    /\ UNCHANGED <<procVars, cconn, cdone, cmu, writing, regVars, envVars, otherVars, hist>>

\* application code holding a *Conn calls c.Close()
App_Close(p, c) ==
    /\ At(p, "idle")
    /\ budget > 0
    /\ cconn[c] # "unset"
    /\ budget' = budget - 1
    /\ Call(p, "Close_lock", c, "idle")
    /\ UNCHANGED <<res, connVars, regVars, otherVars, hist>>

\* application code holding a *Conn calls c.Write / c.Emit / c.Send
App_Write(p, c) ==
    /\ At(p, "idle")
    /\ budget > 0
    /\ cconn[c] # "unset"
    /\ budget' = budget - 1
    /\ Call(p, "Write_lock", c, "idle")
    /\ hist' = [hist EXCEPT !.late[p] = hist.closeRets[c] > 0,
                             !.writeRets[p] = "none"]
    /\ UNCHANGED <<res, connVars, regVars, otherVars>>

\* application code holding a *Channel calls ch.Emit(name, data)
App_ChannelEmit(p, ch) ==
    /\ At(p, "idle")
    /\ budget > 0
    /\ budget' = budget - 1
    /\ ech' = [ech EXCEPT ![p] = ch]
    /\ Goto(p, "chEmit_lock")
    /\ UNCHANGED <<ret, arg, res, connVars, regVars, sdVars, ntVars, snapVars, appVars, routeVars,
                   chanVars, iter, hist>>

\* application code holding a *Channel calls ch.Count()
App_ChannelCount(p, ch) ==
    /\ At(p, "idle")
    /\ budget > 0
    /\ budget' = budget - 1
    /\ ech' = [ech EXCEPT ![p] = ch]
    /\ Goto(p, "chCount_lock")
    /\ UNCHANGED <<ret, arg, res, connVars, regVars, sdVars, ntVars, snapVars, appVars, routeVars,
                   chanVars, iter, hist>>

\* application code holding a *Channel and a *Conn calls ch.Add(c)
App_Add(p, ch, c) ==
    /\ At(p, "idle")
    /\ budget > 0
    /\ budget' = budget - 1
    /\ ech' = [ech EXCEPT ![p] = ch]
    /\ Call(p, "Add_lock", c, "idle")
    /\ UNCHANGED <<res, connVars, regVars, sdVars, ntVars, snapVars, appVars, routeVars,
                   chanVars, iter, hist>>

\* application code holding a *Channel and a *Conn calls ch.Remove(c)
App_Remove(p, ch, c) ==
    /\ At(p, "idle")
    /\ budget > 0
    /\ budget' = budget - 1
    /\ ech' = [ech EXCEPT ![p] = ch]
    /\ Call(p, "Remove_lock", c, "idle")
    /\ UNCHANGED <<res, connVars, regVars, sdVars, ntVars, snapVars, appVars, routeVars,
                   chanVars, iter, hist>>

\* application code calls s.Channel(id)
App_Channel(p, id) ==
    /\ At(p, "idle")
    /\ budget > 0
    /\ budget' = budget - 1
    /\ Call(p, "sChannel_lock", id, "idle")
    /\ UNCHANGED <<res, connVars, regVars, otherVars, hist>>

\* application code calls s.SendTo(id, name, message)
App_SendTo(p, id) ==
    /\ At(p, "idle")
    /\ budget > 0
    /\ budget' = budget - 1
    /\ Call(p, "SendTo_lock", id, "idle")
    /\ UNCHANGED <<res, connVars, regVars, otherVars, hist>>

\* application code holding a *Channel calls ch.Purge()
App_Purge(p, ch) ==
    /\ At(p, "idle")
    /\ budget > 0
    /\ chq[ch] < MaxPurges
    /\ budget' = budget - 1
    /\ ech' = [ech EXCEPT ![p] = ch]
    /\ Call(p, "Purge_lock", 0, "idle")
    /\ UNCHANGED <<res, connVars, regVars, sdVars, ntVars, snapVars, appVars, routeVars,
                   chanVars, iter, hist>>


\* application code calls s.Emit(name, data)
App_ServerEmit(p) ==
    /\ At(p, "idle")
    /\ budget > 0
    /\ budget' = budget - 1
    /\ Goto(p, "Emit_send")
    /\ hist' = [hist EXCEPT !.emLate[p] = hist.sdRets > 0]
    /\ UNCHANGED <<ret, arg, res, connVars, regVars, otherVars>>

\* the application cancels the context it gave to Run
App_cancel ==
    /\ ~Crashed
    /\ ~ctxDone
    /\ budget > 0
    /\ budget' = budget - 1
    /\ ctxDone' = TRUE
    /\ UNCHANGED <<procVars, connVars, regVars, sdVars, ntVars, snapVars, onConnect,
                   onDisconnect, chanVars, callVars, routeVars, hist>>

\* application code calls s.On(name, f)
App_On(p, name) ==
    /\ At(p, "idle")
    /\ budget > 0
    /\ budget' = budget - 1
    /\ Call(p, "On_lock", name, "idle")
    /\ UNCHANGED <<res, connVars, regVars, otherVars, hist>>

\* ------------------------------------------------------- specification
HistInit ==
    [panics |-> {},
     dialed |-> [p \in Procs |-> -1],
     uncounted |-> [p \in Procs |-> FALSE],
     ops |-> <<>>,
     chCounted |-> [p \in Procs |-> NoCount],
     overtaken |-> [c \in Conns |-> FALSE],
     late |-> [p \in Procs |-> FALSE],
     writeRets |-> [p \in Procs |-> "none"],
     closeRets |-> [c \in Conns |-> 0],
     closeNoop |-> [c \in Conns |-> 0],
     sockCloses |-> [c \in Conns |-> 0],
     doneSends |-> [c \in Conns |-> 0],
     tickerStops |-> [c \in Conns |-> 0],
     added |-> [c \in Conns |-> 0],
     dropped |-> [c \in Conns |-> 0],
     sdK |-> [p \in Procs |-> 0],
     count |-> [p \in Procs |-> 0],
     countN |-> [p \in Procs |-> 0],
     countM |-> [p \in Procs |-> 0],
     atDrop |-> [c \in Conns |-> {}],
     em |-> [p \in AppProcs |-> NoEmit],
     fan |-> [f \in Fans |-> NoFan],
     last |-> [h \in Handlers |-> NoDispatch],
     cause |-> [h \in Handlers |-> "none"],
     appErrs |-> [h \in Handlers |-> 0],
     echoed |-> [h \in Handlers |-> <<>>],
     msg |-> [h \in Handlers |-> NoMsg],
     ping |-> [h \in Handlers |-> [n |-> 0, b |-> EmptyPayload]],
     pong |-> [h \in Handlers |-> [n |-> 0, b |-> EmptyPayload]],
     pongsIn |-> [h \in Handlers |-> 0],
     torn |-> [h \in Handlers |-> FALSE],
     disc |-> [c \in Conns |-> 0],
     lateUp |-> [h \in Handlers |-> FALSE],
     sdSet |-> {},
     sdRets |-> 0,
     emLate |-> [p \in AppProcs |-> FALSE],
     fanLate |-> [f \in Fans |-> FALSE]]

\* the state after New()
Init ==
    /\ pc = [p \in Procs |->
               IF p \in Handlers THEN "h_idle"
               ELSE IF p \in AppProcs THEN "idle" ELSE "off"]
    /\ ret = [p \in Procs |-> "idle"]
    /\ arg = [p \in Procs |-> 0]
    /\ res = [p \in Procs |-> "nil"]
    /\ budget = MaxOps
    /\ cconn = [c \in Conns |-> "unset"]
    /\ sock = [c \in Conns |-> "none"]
    /\ cdone = [c \in Conns |-> 0]
    /\ cmu = [c \in Conns |-> None]
    /\ writing = [c \in Conns |-> {}]
    /\ connections = {}
    /\ smu = [w |-> None, r |-> {}]
    /\ sdone = FALSE
    /\ wg = 0
    /\ delChan = <<>>
    /\ ntList = [c \in Conns |-> <<>>]
    /\ snap = [h \in Handlers |-> {}]
    /\ evt = NoEvents
    /\ onConnect = "nil"
    /\ onDisconnect = "nil"
    /\ ctxDone = FALSE
    /\ members = [ch \in Chans |-> {}]
    /\ chq = [ch \in Chans |-> 0]
    /\ grecv = [ch \in Chans |-> 0]
    /\ chmu = [ch \in Chans |-> None]
    /\ ech = [p \in Procs |-> 0]
    /\ iter = [p \in Rangers |-> NoIter]
    /\ callbacks = {}
    /\ frame = [h \in Handlers |-> NoFrame]
    /\ loop = [h \in Handlers |-> IdleLoop]
    /\ hist = HistInit

ConnStep(p) ==
    \/ Write_lock(p) \/ Write_hdr(p) \/ Write_body(p)
    \/ Close_lock(p) \/ Close_check(p) \/ Close_body(p)

KeeperStep(k) ==
    \/ startPing_tick(k) \/ startPing_wrote(k) \/ startPing_done(k)

HandlerStep(h) ==
    \/ Handler_upgrade(h) \/ addConn_lock(h) \/ addConn_ins(h)
    \/ Handler_ping(h) \/ Handler_pongHeader(h) \/ Handler_pongPayload(h)
    \/ Handler_drop(h) \/ dropConn_notify(h) \/ dropConn_lock(h) \/ dropConn_del(h)
    \/ Handler_return(h)

\* One connection in the hands of its read loop, its keepalive goroutine and
\* application goroutines that write to it and close it.
NextConn ==
    \/ \E p \in Procs : ConnStep(p)
    \/ \E k \in Keepers : KeeperStep(k)
    \/ HandlerStep(<<"h", 1>>)
    \/ Notifier_range(<<"nt", 1>>)
    \/ Peer_break(1)
    \/ \E p \in AppProcs : App_Close(p, 1) \/ App_Write(p, 1)

SpecConn == Init /\ [][NextConn]_vars

ShutdownStep(p) ==
    \/ Shutdown_lock(p) \/ Shutdown_wait(p) \/ Shutdown_return(p)

CloserStep(g) ==
    \/ Shutdown_close(g) \/ Shutdown_done(g)

CountStep(p) ==
    \/ Count_rlock(p) \/ Count_len(p)

\* Clients connect and disconnect while an application goroutine calls Count
\* and Shutdown.  No channel exists, and no keepalive tick falls in the run.
NextRegistry ==
    \/ \E h \in Handlers :
          \/ Handler_upgrade(h) \/ addConn_lock(h) \/ addConn_ins(h)
          \/ Handler_drop(h) \/ dropConn_notify(h) \/ dropConn_lock(h)
          \/ dropConn_del(h) \/ Handler_return(h)
    \/ \E g \in Closers :
          \/ CloserStep(g)
          \/ Close_lock(g) \/ Close_check(g) \/ Close_body(g)
    \/ ShutdownStep(<<"app", "a">>) \/ App_Shutdown(<<"app", "a">>)
    \/ CountStep(<<"app", "a">>) \/ App_Count(<<"app", "a">>)

SpecRegistry == Init /\ [][NextRegistry]_vars

\* The state after New(), OnConnect(hook) with a hook that adds the new
\* connection to a channel, and NewChannel for every channel.
InitChannel ==
    /\ pc = [p \in Procs |->
               IF p \in Handlers THEN "h_idle"
               ELSE IF p \in AppProcs THEN "idle"
               ELSE IF p \in ChanGs THEN "chg_select" ELSE "off"]
    /\ ret = [p \in Procs |-> "idle"]
    /\ arg = [p \in Procs |-> 0]
    /\ res = [p \in Procs |-> "nil"]
    /\ budget = MaxOps
    /\ cconn = [c \in Conns |-> "unset"]
    /\ sock = [c \in Conns |-> "none"]
    /\ cdone = [c \in Conns |-> 0]
    /\ cmu = [c \in Conns |-> None]
    /\ writing = [c \in Conns |-> {}]
    /\ connections = {}
    /\ smu = [w |-> None, r |-> {}]
    /\ sdone = FALSE
    /\ wg = 0
    /\ delChan = [i \in 1..NChans |-> <<i, 0>>]
    /\ ntList = [c \in Conns |-> <<>>]
    /\ snap = [h \in Handlers |-> {}]
    /\ evt = NoEvents
    /\ onConnect = "add"
    /\ onDisconnect = "nil"
    /\ ctxDone = FALSE
    /\ members = [ch \in Chans |-> {}]
    /\ chq = [ch \in Chans |-> 0]
    /\ grecv = [ch \in Chans |-> 0]
    /\ chmu = [ch \in Chans |-> None]
    /\ ech = [p \in Procs |-> 0]
    /\ iter = [p \in Rangers |-> NoIter]
    /\ callbacks = {}
    /\ frame = [h \in Handlers |-> NoFrame]
    /\ loop = [h \in Handlers |-> IdleLoop]
    /\ hist = HistInit

\* The state after every client has also connected and the hook has added
\* its connection to the first channel.
InitJoined ==
    /\ pc = [p \in Procs |->
               IF p \in Handlers THEN "h_read"
               ELSE IF p \in Keepers THEN "ka_select"
               ELSE IF p \in AppProcs THEN "idle"
               ELSE IF p \in ChanGs THEN "chg_select" ELSE "off"]
    /\ ret = [p \in Procs |-> "idle"]
    /\ arg = [p \in Procs |-> 0]
    /\ res = [p \in Procs |-> "nil"]
    /\ budget = MaxOps
    /\ cconn = [c \in Conns |-> "set"]
    /\ sock = [c \in Conns |-> "open"]
    /\ cdone = [c \in Conns |-> 0]
    /\ cmu = [c \in Conns |-> None]
    /\ writing = [c \in Conns |-> {}]
    /\ connections = Conns
    /\ smu = [w |-> None, r |-> {}]
    /\ sdone = FALSE
    /\ wg = 0
    /\ delChan = [i \in 1..NChans |-> <<i, 0>>]
    /\ ntList = [c \in Conns |-> <<>>]
    /\ snap = [h \in Handlers |-> {}]
    /\ evt = NoEvents
    /\ onConnect = "add"
    /\ onDisconnect = "nil"
    /\ ctxDone = FALSE
    /\ members = [ch \in Chans |-> IF ch = 1 THEN Conns ELSE {}]
    /\ chq = [ch \in Chans |-> 0]
    /\ grecv = [ch \in Chans |-> 0]
    /\ chmu = [ch \in Chans |-> None]
    /\ ech = [p \in Procs |-> 0]
    /\ iter = [p \in Rangers |-> NoIter]
    /\ callbacks = {}
    /\ frame = [h \in Handlers |-> NoFrame]
    /\ loop = [h \in Handlers |-> IdleLoop]
    /\ hist = [HistInit EXCEPT !.added = [c \in Conns |-> 1]]

ChannelStep(g) ==
    \/ Channel_select(g) \/ Channel_lock(g) \/ Channel_del(g)
    \/ Close_lock(g) \/ Close_check(g) \/ Close_body(g)

HookStep(o) ==
    \/ Hook_run(o) \/ Add_lock(o) \/ Add_ins(o)

NotifierStep(n) ==
    \/ Notifier_range(n) \/ Notifier_send(n)

DropStep(h) ==
    \/ addConn_lock(h) \/ addConn_ins(h)
    \/ dropConn_notify(h) \/ dropConn_lock(h) \/ dropConn_del(h)
    \/ Handler_return(h)

PurgeStep(p) ==
    \/ Purge_lock(p) \/ Purge_body(p)

DropProcs == Handlers \cup Hooks \cup Notifiers \cup ChanGs \cup {<<"app", "a">>}

\* what the goroutine p does next by itself, in NextDrop
DropProg(p) ==
    \/ p \in Handlers /\ DropStep(p)
    \/ p \in Hooks /\ HookStep(p)
    \/ p \in Notifiers /\ NotifierStep(p)
    \/ p \in ChanGs /\ ChannelStep(p)
    \/ p \in AppProcs /\ PurgeStep(p)

\* Clients connect, are added to a channel by the OnConnect hook, and
\* disconnect, while an application goroutine calls Purge.
NextDrop ==
    \/ \E h \in Handlers : Handler_upgrade(h) \/ Handler_drop(h) \/ DropStep(h)
    \/ \E o \in Hooks : HookStep(o)
    \/ \E n \in Notifiers : NotifierStep(n)
    \/ \E g \in ChanGs : ChannelStep(g)
    \/ PurgeStep(<<"app", "a">>)
    \/ \E ch \in Chans : App_Purge(<<"app", "a">>, ch)

\* Every goroutine that can take a step eventually takes one; when a client
\* connects or disconnects and when the application calls is up to them.
SpecDrop ==
    /\ InitChannel
    /\ [][NextDrop]_vars
    /\ \A p \in DropProcs : WF_vars(DropProg(p))

ChannelEmitStep(p) ==
    \/ ChannelEmit_lock(p) \/ (\E con \in Conns : ChannelEmit_next(p, con))
    \/ ChannelEmit_end(p) \/ ChannelEmit_wrote(p)
    \/ ChannelEmit_unlock(p) \/ ChannelEmit_relock(p)
    \/ Remove_lock(p) \/ Remove_del(p)

\* The first member of a channel disconnects and the last one loses its peer,
\* while one application goroutine emits to the channel and another one
\* closes the last member's connection and purges the channel.
NextChannel ==
    \/ Handler_drop(<<"h", 1>>) \/ dropConn_notify(<<"h", 1>>)
    \/ dropConn_lock(<<"h", 1>>) \/ dropConn_del(<<"h", 1>>)
    \/ Handler_return(<<"h", 1>>)
    \/ Peer_break(NConns)
    \/ NotifierStep(<<"nt", 1>>)
    \/ \E g \in ChanGs : ChannelStep(g)
    \/ \E p \in AppProcs : ConnStep(p)
    \/ ChannelEmitStep(<<"app", "a">>)
    \/ \E ch \in Chans : App_ChannelEmit(<<"app", "a">>, ch)
    \/ PurgeStep(<<"app", "b">>)
    \/ \E ch \in Chans : App_Purge(<<"app", "b">>, ch)
    \/ App_Close(<<"app", "b">>, NConns)

SpecChannel == InitJoined /\ [][NextChannel]_vars

\* The state after New(), Run(ctx) and the connection of every client.
InitServing ==
    /\ pc = [p \in Procs |->
               IF p \in Handlers THEN "h_read"
               ELSE IF p \in Keepers THEN "ka_select"
               ELSE IF p \in AppProcs THEN "idle"
               ELSE IF p = Runner THEN "run_select" ELSE "off"]
    /\ ret = [p \in Procs |-> "idle"]
    /\ arg = [p \in Procs |-> 0]
    /\ res = [p \in Procs |-> "nil"]
    /\ budget = MaxOps
    /\ cconn = [c \in Conns |-> "set"]
    /\ sock = [c \in Conns |-> "open"]
    /\ cdone = [c \in Conns |-> 0]
    /\ cmu = [c \in Conns |-> None]
    /\ writing = [c \in Conns |-> {}]
    /\ connections = Conns
    /\ smu = [w |-> None, r |-> {}]
    /\ sdone = FALSE
    /\ wg = 0
    /\ delChan = <<>>
    /\ ntList = [c \in Conns |-> <<>>]
    /\ snap = [h \in Handlers |-> {}]
    /\ evt = NoEvents
    /\ onConnect = "nil"
    /\ onDisconnect = "nil"
    /\ ctxDone = FALSE
    /\ members = [ch \in Chans |-> {}]
    /\ chq = [ch \in Chans |-> 0]
    /\ grecv = [ch \in Chans |-> 0]
    /\ chmu = [ch \in Chans |-> None]
    /\ ech = [p \in Procs |-> 0]
    /\ iter = [p \in Rangers |-> NoIter]
    /\ callbacks = {}
    /\ frame = [h \in Handlers |-> NoFrame]
    /\ loop = [h \in Handlers |-> IdleLoop]
    /\ hist = [HistInit EXCEPT !.added = [c \in Conns |-> 1]]

FanStep(f) ==
    \/ Fan_rlock(f) \/ (\E c \in Conns : Fan_next(f, c)) \/ Fan_end(f)
    \/ Write_lock(f) \/ Write_hdr(f) \/ Write_body(f)

\* The first connection disconnects and the last one loses its peer, while
\* one application goroutine broadcasts and another one closes the last
\* connection.
NextBroadcast ==
    \/ Handler_drop(<<"h", 1>>) \/ dropConn_notify(<<"h", 1>>)
    \/ dropConn_lock(<<"h", 1>>) \/ dropConn_del(<<"h", 1>>)
    \/ Handler_return(<<"h", 1>>)
    \/ Notifier_range(<<"nt", 1>>)
    \/ Peer_break(NConns)
    \/ App_ServerEmit(<<"app", "a">>) \/ Run_broadcast(<<"app", "a">>)
    \/ \E f \in Fans : FanStep(f)
    \/ App_Close(<<"app", "b">>, NConns)
    \/ Close_lock(<<"app", "b">>) \/ Close_check(<<"app", "b">>)
    \/ Close_body(<<"app", "b">>)

SpecBroadcast == InitServing /\ [][NextBroadcast]_vars

OnStep(p) ==
    \/ On_lock(p) \/ On_set(p)

\* One client connects and sends single-frame messages, which the default
\* handler echoes, while an application goroutine registers callbacks.
NextRouter ==
    \/ Handler_upgrade(<<"h", 1>>) \/ addConn_lock(<<"h", 1>>)
    \/ addConn_ins(<<"h", 1>>)
    \/ \E op \in OpCodes : \E b \in Payloads : Handler_message(<<"h", 1>>, op, b)
    \/ processMessage(<<"h", 1>>)
    \/ Write_lock(<<"h", 1>>) \/ Write_hdr(<<"h", 1>>) \/ Write_body(<<"h", 1>>)
    \/ OnStep(<<"app", "a">>)
    \/ \E name \in Names : App_On(<<"app", "a">>, name)

SpecRouter == Init /\ [][NextRouter]_vars

\* The same, and the client may also break the connection off, which ends
\* the read loop.
NextErrors ==
    \/ NextRouter
    \/ Handler_drop(<<"h", 1>>) \/ dropConn_notify(<<"h", 1>>)
    \/ dropConn_lock(<<"h", 1>>) \/ dropConn_del(<<"h", 1>>)
    \/ Handler_return(<<"h", 1>>)
    \/ Notifier_range(<<"nt", 1>>)

SpecErrors == Init /\ [][NextErrors]_vars

\* payloads of the data frames of NextFrames, each with what its bytes are
\* to a UTF-8 decoder
Chunks ==
    {[b |-> EmptyPayload, u |-> "none"]} \cup
    [b : {Garbage}, u : Utf8Classes \ {"none"}]

\* The first client sends data frames, whole messages and fragments, text
\* and binary, in any order, and Ping, Pong and Close frames; no callback
\* is registered, so the default handler echoes what is dispatched.
NextFrames ==
    \/ \E op \in DataOps : \E fin \in BOOLEAN : \E k \in Chunks :
          Handler_data(<<"h", 1>>, op, fin, k.b, k.u)
    \/ processMessage(<<"h", 1>>)
    \/ Write_lock(<<"h", 1>>) \/ Write_hdr(<<"h", 1>>) \/ Write_body(<<"h", 1>>)
    \/ Handler_ping(<<"h", 1>>) \/ Handler_pongHeader(<<"h", 1>>)
    \/ Handler_pongPayload(<<"h", 1>>)
    \/ Handler_pong(<<"h", 1>>)
    \/ Handler_close(<<"h", 1>>)
    \/ dropConn_notify(<<"h", 1>>) \/ dropConn_lock(<<"h", 1>>)
    \/ dropConn_del(<<"h", 1>>) \/ Handler_return(<<"h", 1>>)
    \/ Notifier_range(<<"nt", 1>>)

SpecFrames == InitServing /\ [][NextFrames]_vars

\* The state after New(), OnDisconnect(f) and the connection of every
\* client.
InitHooked ==
    /\ pc = [p \in Procs |->
               IF p \in Handlers THEN "h_read"
               ELSE IF p \in Keepers THEN "ka_select"
               ELSE IF p \in AppProcs THEN "idle" ELSE "off"]
    /\ ret = [p \in Procs |-> "idle"]
    /\ arg = [p \in Procs |-> 0]
    /\ res = [p \in Procs |-> "nil"]
    /\ budget = MaxOps
    /\ cconn = [c \in Conns |-> "set"]
    /\ sock = [c \in Conns |-> "open"]
    /\ cdone = [c \in Conns |-> 0]
    /\ cmu = [c \in Conns |-> None]
    /\ writing = [c \in Conns |-> {}]
    /\ connections = Conns
    /\ smu = [w |-> None, r |-> {}]
    /\ sdone = FALSE
    /\ wg = 0
    /\ delChan = <<>>
    /\ ntList = [c \in Conns |-> <<>>]
    /\ snap = [h \in Handlers |-> {}]
    /\ evt = NoEvents
    /\ onConnect = "nil"
    /\ onDisconnect = "hook"
    /\ ctxDone = FALSE
    /\ members = [ch \in Chans |-> {}]
    /\ chq = [ch \in Chans |-> 0]
    /\ grecv = [ch \in Chans |-> 0]
    /\ chmu = [ch \in Chans |-> None]
    /\ ech = [p \in Procs |-> 0]
    /\ iter = [p \in Rangers |-> NoIter]
    /\ callbacks = {}
    /\ frame = [h \in Handlers |-> NoFrame]
    /\ loop = [h \in Handlers |-> IdleLoop]
    /\ hist = [HistInit EXCEPT !.added = [c \in Conns |-> 1]]

\* what the goroutine p does next by itself, in NextClose
CloseProg(p) ==
    \/ /\ p \in Handlers
       /\ \/ dropConn_notify(p) \/ dropConn_lock(p) \/ dropConn_del(p)
          \/ Handler_return(p)
    \/ p \in Notifiers /\ Notifier_range(p)
    \/ p \in DiscHooks /\ Disconnect_run(p)

\* Clients send Pong and Close frames; a Close frame ends the read loop.
NextClose ==
    \/ \E h \in Handlers :
          \/ Handler_pong(h) \/ Handler_close(h)
          \/ dropConn_notify(h) \/ dropConn_lock(h) \/ dropConn_del(h)
          \/ Handler_return(h)
    \/ \E n \in Notifiers : Notifier_range(n)
    \/ \E o \in DiscHooks : Disconnect_run(o)

\* Every goroutine that can take a step eventually takes one; when a client
\* sends a frame is up to the client.
SpecClose ==
    /\ InitHooked
    /\ [][NextClose]_vars
    /\ \A p \in Handlers \cup Notifiers \cup DiscHooks : WF_vars(CloseProg(p))

\* what the goroutine p does next by itself, in NextCancel
CancelProg(p) ==
    \/ p = Runner /\ (Run_cancelled(p) \/ ShutdownStep(p))
    \/ /\ p \in Closers
       /\ CloserStep(p) \/ Close_lock(p) \/ Close_check(p) \/ Close_body(p)
    \/ p \in Keepers /\ startPing_done(p)
    \/ /\ p \in Handlers
       /\ \/ Handler_readError(p)
          \/ dropConn_notify(p) \/ dropConn_lock(p) \/ dropConn_del(p)
          \/ Handler_return(p)
    \/ p \in Notifiers /\ Notifier_range(p)

CancelProcs == {Runner} \cup Closers \cup Keepers \cup Handlers \cup Notifiers

\* The application cancels the context of Run; Shutdown and everything
\* that follows from it.  No keepalive tick falls in the run.
NextShutdown ==
    \/ App_cancel
    \/ Run_cancelled(Runner) \/ ShutdownStep(Runner)
    \/ \E g \in Closers :
          \/ CloserStep(g)
          \/ Close_lock(g) \/ Close_check(g) \/ Close_body(g)
    \/ \E k \in Keepers : startPing_done(k)
    \/ \E h \in Handlers :
          \/ Handler_readError(h)
          \/ dropConn_notify(h) \/ dropConn_lock(h) \/ dropConn_del(h)
          \/ Handler_return(h)
    \/ \E n \in Notifiers : Notifier_range(n)

\* The same while clients send Close frames.
NextCancel ==
    \/ NextShutdown
    \/ \E h \in Handlers : Handler_close(h)

\* Every goroutine that can take a step eventually takes one; a read on a
\* closed socket returns; when the application cancels and when a client
\* sends a frame is up to them.
SpecCancel ==
    /\ InitServing
    /\ [][NextCancel]_vars
    /\ \A p \in CancelProcs : WF_vars(CancelProg(p))

\* The same, and one application goroutine calls Shutdown itself while
\* another one broadcasts.
NextLifecycle ==
    \/ NextShutdown
    \/ App_Shutdown(<<"app", "a">>) \/ ShutdownStep(<<"app", "a">>)
    \/ App_ServerEmit(<<"app", "b">>) \/ Run_broadcast(<<"app", "b">>)
    \/ \E f \in Fans : FanStep(f)

SpecLifecycle == InitServing /\ [][NextLifecycle]_vars

\* The application calls Shutdown from two goroutines, any number of times,
\* while it may also cancel the context of Run.
NextShutdowns ==
    \/ NextShutdown
    \/ \E p \in AppProcs : App_Shutdown(p) \/ ShutdownStep(p)

SpecShutdowns == InitServing /\ [][NextShutdowns]_vars

\* The router, with the outcome of the unlocked lookup racing with On.
NextRace ==
    \/ NextRouter
    \/ processMessage_race(<<"h", 1>>)

SpecRace == Init /\ [][NextRace]_vars

\* The echo server: one client connects and sends single-frame messages
\* while the application registers callbacks, each of them the relay to the
\* sender.
NextEcho ==
    \/ Handler_upgrade(<<"h", 1>>) \/ addConn_lock(<<"h", 1>>)
    \/ addConn_ins(<<"h", 1>>)
    \/ \E op \in OpCodes : \E b \in Payloads : Handler_message(<<"h", 1>>, op, b)
    \/ processMessage_relay(<<"h", 1>>)
    \/ Write_lock(<<"h", 1>>) \/ Write_hdr(<<"h", 1>>) \/ Write_body(<<"h", 1>>)
    \/ OnStep(<<"app", "a">>)
    \/ \E name \in Names : App_On(<<"app", "a">>, name)

SpecEcho == Init /\ [][NextEcho]_vars

\* The members of a channel disconnect, and the last member is closed by the
\* application, while another application goroutine calls the channel's
\* Count.
NextCount ==
    \/ \E h \in Handlers :
          \/ Handler_drop(h) \/ dropConn_notify(h) \/ dropConn_lock(h)
          \/ dropConn_del(h) \/ Handler_return(h)
    \/ \E n \in Notifiers : NotifierStep(n)
    \/ \E g \in ChanGs : ChannelStep(g)
    \/ \E ch \in Chans : App_ChannelCount(<<"app", "a">>, ch)
    \/ ChannelCount_lock(<<"app", "a">>) \/ ChannelCount_range(<<"app", "a">>)
    \/ App_Close(<<"app", "b">>, NConns)
    \/ Close_lock(<<"app", "b">>) \/ Close_check(<<"app", "b">>)
    \/ Close_body(<<"app", "b">>)

SpecCount == InitJoined /\ [][NextCount]_vars

\* One application goroutine adds connections to a channel and removes them
\* from it, while another one closes connections.
NextMembers ==
    \/ \E ch \in Chans : \E c \in Conns :
          App_Add(<<"app", "a">>, ch, c) \/ App_Remove(<<"app", "a">>, ch, c)
    \/ Add_lock(<<"app", "a">>) \/ Add_ins(<<"app", "a">>)
    \/ Remove_lock(<<"app", "a">>) \/ Remove_del(<<"app", "a">>)
    \/ \E c \in Conns : App_Close(<<"app", "b">>, c)
    \/ Close_lock(<<"app", "b">>) \/ Close_check(<<"app", "b">>)
    \/ Close_body(<<"app", "b">>)

SpecMembers == InitJoined /\ [][NextMembers]_vars

\* The same, and the first application goroutine may also purge the channel.
NextPurged ==
    \/ NextMembers
    \/ PurgeStep(<<"app", "a">>)
    \/ \E ch \in Chans : App_Purge(<<"app", "a">>, ch)

SpecPurged == InitJoined /\ [][NextPurged]_vars

\* The first member of a channel disconnects and the last one has lost its
\* peer, while one application goroutine emits to the channel and another
\* one purges it and calls Count on it.
NextMaps ==
    \/ Handler_drop(<<"h", 1>>) \/ dropConn_notify(<<"h", 1>>)
    \/ dropConn_lock(<<"h", 1>>) \/ dropConn_del(<<"h", 1>>)
    \/ Handler_return(<<"h", 1>>)
    \/ Peer_break(NConns)
    \/ NotifierStep(<<"nt", 1>>)
    \/ \E g \in ChanGs : ChannelStep(g)
    \/ ChannelEmitStep(<<"app", "a">>) \/ ConnStep(<<"app", "a">>)
    \/ \E ch \in Chans : App_ChannelEmit(<<"app", "a">>, ch)
    \/ PurgeStep(<<"app", "b">>)
    \/ \E ch \in Chans : App_Purge(<<"app", "b">>, ch)
    \/ \E ch \in Chans : App_ChannelCount(<<"app", "b">>, ch)
    \/ ChannelCount_lock(<<"app", "b">>) \/ ChannelCount_range(<<"app", "b">>)

SpecMaps == InitJoined /\ [][NextMaps]_vars

\* The application cancels the context of Run while one of its goroutines
\* broadcasts.
NextEmits ==
    \/ NextShutdown
    \/ App_ServerEmit(<<"app", "b">>) \/ Run_broadcast(<<"app", "b">>)
    \/ \E f \in Fans : FanStep(f)

\* Every goroutine that can take a step eventually takes one, and a send on
\* s.broadcast that Run's select can receive is eventually received or
\* made impossible; when the application cancels and when it calls Emit is
\* up to it.
SpecEmits ==
    /\ InitServing
    /\ [][NextEmits]_vars
    /\ \A p \in CancelProcs : WF_vars(CancelProg(p))
    /\ WF_vars(Run_broadcast(<<"app", "b">>))
    /\ \A f \in Fans : WF_vars(FanStep(f))

\* what the goroutine p does next by itself, in NextSendTo
SendToProg(p) ==
    \/ /\ p \in AppProcs
       /\ \/ SendTo_lock(p) \/ ServerChannel_lock(p) \/ ServerChannel_ret(p)
          \/ CountStep(p)
    \/ /\ p \in Handlers
       /\ \/ dropConn_notify(p) \/ dropConn_lock(p) \/ dropConn_del(p)
          \/ Handler_return(p)
    \/ p \in Notifiers /\ NotifierStep(p)
    \/ p \in ChanGs /\ ChannelStep(p)

\* The first member of a channel disconnects while one application
\* goroutine calls SendTo and another one calls Channel and Count.
NextSendTo ==
    \/ Handler_drop(<<"h", 1>>) \/ dropConn_notify(<<"h", 1>>)
    \/ dropConn_lock(<<"h", 1>>) \/ dropConn_del(<<"h", 1>>)
    \/ Handler_return(<<"h", 1>>)
    \/ NotifierStep(<<"nt", 1>>)
    \/ \E g \in ChanGs : ChannelStep(g)
    \/ \E id \in ChannelIds : App_SendTo(<<"app", "a">>, id)
    \/ SendTo_lock(<<"app", "a">>)
    \/ \E id \in ChannelIds : App_Channel(<<"app", "b">>, id)
    \/ \E p \in AppProcs : ServerChannel_lock(p) \/ ServerChannel_ret(p)
    \/ App_Count(<<"app", "b">>) \/ CountStep(<<"app", "b">>)

\* Every goroutine that can take a step eventually takes one; when a client
\* disconnects and when the application calls is up to them.
SpecSendTo ==
    /\ InitJoined
    /\ [][NextSendTo]_vars
    /\ \A p \in AppProcs \cup DropProcs : WF_vars(SendToProg(p))

\* The state of the event-loop Server after CreateAndRun() and the
\* connection of every client.
InitLoop ==
    /\ pc = [p \in Procs |->
               IF p \in Handlers THEN "h_read"
               ELSE IF p \in AppProcs THEN "idle"
               ELSE IF p = Runner THEN "ev_select" ELSE "off"]
    /\ ret = [p \in Procs |-> "idle"]
    /\ arg = [p \in Procs |-> 0]
    /\ res = [p \in Procs |-> "nil"]
    /\ budget = MaxOps
    /\ cconn = [c \in Conns |-> "set"]
    /\ sock = [c \in Conns |-> "open"]
    /\ cdone = [c \in Conns |-> 0]
    /\ cmu = [c \in Conns |-> None]
    /\ writing = [c \in Conns |-> {}]
    /\ connections = Conns
    /\ smu = [w |-> None, r |-> {}]
    /\ sdone = FALSE
    /\ wg = 0
    /\ delChan = <<>>
    /\ ntList = [c \in Conns |-> <<>>]
    /\ snap = [h \in Handlers |-> {}]
    /\ evt = NoEvents
    /\ onConnect = "nil"
    /\ onDisconnect = "nil"
    /\ ctxDone = FALSE
    /\ members = [ch \in Chans |-> {}]
    /\ chq = [ch \in Chans |-> 0]
    /\ grecv = [ch \in Chans |-> 0]
    /\ chmu = [ch \in Chans |-> None]
    /\ ech = [p \in Procs |-> 0]
    /\ iter = [p \in Rangers |-> NoIter]
    /\ callbacks = {}
    /\ frame = [h \in Handlers |-> NoFrame]
    /\ loop = [h \in Handlers |-> IdleLoop]
    /\ hist = [HistInit EXCEPT !.added = [c \in Conns |-> 1]]

\* what the goroutine p does next by itself, in NextLoop
LoopProg(p) ==
    \/ /\ p \in Handlers
       /\ EvHandler_readError(p) \/ EvRun_delConn(p) \/ Handler_return(p)
    \/ p = Runner /\ (EvRun_del(p) \/ EvRun_done(p))
    \/ p \in Notifiers /\ Notifier_range(p)
    \/ /\ p \in AppProcs
       /\ \/ EvShutdown_rlock(p) \/ EvShutdown_done(p)
          \/ \E c \in Conns : EvShutdown_close(p, c)

\* The application calls Shutdown of the event-loop Server, from two
\* goroutines, any number of times.
NextLoop ==
    \/ \E h \in Handlers :
          EvHandler_readError(h) \/ EvRun_delConn(h) \/ Handler_return(h)
    \/ EvRun_del(Runner) \/ EvRun_done(Runner)
    \/ \E n \in Notifiers : Notifier_range(n)
    \/ \E p \in AppProcs :
          \/ App_EvShutdown(p)
          \/ EvShutdown_rlock(p) \/ EvShutdown_done(p)
          \/ \E c \in Conns : EvShutdown_close(p, c)

\* Every goroutine that can take a step eventually takes one; when the
\* application calls Shutdown is up to it.
SpecLoop ==
    /\ InitLoop
    /\ [][NextLoop]_vars
    /\ \A p \in Handlers \cup Notifiers \cup AppProcs \cup {Runner} : WF_vars(LoopProg(p))

ChannelsStep(p) ==
    \/ Channels_rlock(p) \/ Channels_count(p) \/ Channels_counted(p)

\* The first member of a channel disconnects and the last one has lost its
\* peer, while one application goroutine emits to the channel and another
\* one calls Channels and Shutdown.
NextLocks ==
    \/ Handler_drop(<<"h", 1>>) \/ dropConn_notify(<<"h", 1>>)
    \/ dropConn_lock(<<"h", 1>>) \/ dropConn_del(<<"h", 1>>)
    \/ Handler_return(<<"h", 1>>)
    \/ Peer_break(NConns)
    \/ NotifierStep(<<"nt", 1>>)
    \/ \E g \in ChanGs : ChannelStep(g)
    \/ ChannelEmitStep(<<"app", "a">>) \/ ConnStep(<<"app", "a">>)
    \/ \E ch \in Chans : App_ChannelEmit(<<"app", "a">>, ch)
    \/ ChannelsStep(<<"app", "b">>) \/ App_Channels(<<"app", "b">>)
    \/ ShutdownStep(<<"app", "b">>) \/ App_Shutdown(<<"app", "b">>)
    \/ \E g \in Closers :
          \/ CloserStep(g)
          \/ Close_lock(g) \/ Close_check(g) \/ Close_body(g)

SpecLocks == InitJoined /\ [][NextLocks]_vars

\* A client connects, is added to a channel by the OnConnect hook, sends a
\* Close frame and disconnects, while its peer goes away, its keepalive
\* goroutine pings it, and the application calls Shutdown.
NextEnds ==
    \/ Handler_upgrade(<<"h", 1>>) \/ Handler_close(<<"h", 1>>)
    \/ Handler_readError(<<"h", 1>>) \/ DropStep(<<"h", 1>>)
    \/ \E o \in Hooks : HookStep(o)
    \/ \E n \in Notifiers : NotifierStep(n)
    \/ \E g \in ChanGs : ChannelStep(g)
    \/ Peer_break(1)
    \/ KeeperStep(<<"k", 1>>) \/ ConnStep(<<"k", 1>>)
    \/ App_Shutdown(<<"app", "a">>) \/ ShutdownStep(<<"app", "a">>)
    \/ \E g \in Closers :
          \/ CloserStep(g)
          \/ Close_lock(g) \/ Close_check(g) \/ Close_body(g)

SpecEnds == InitChannel /\ [][NextEnds]_vars

\* what the goroutine p does next by itself, in NextWrites
WritesProg(p) == WriteV_lock(p) \/ WriteV_hdr(p) \/ WriteV_body(p)

\* Application goroutines write to the connections of the event-loop
\* Server while the peers go away.
NextWrites ==
    \/ \E p \in AppProcs : WritesProg(p)
    \/ \E p \in AppProcs : \E c \in Conns : App_WriteV(p, c)
    \/ \E c \in Conns : Peer_break(c)

\* Every goroutine inside Conn.Write that can take a step takes one.
SpecWrites ==
    /\ InitLoop
    /\ [][NextWrites]_vars
    /\ \A p \in AppProcs : WF_vars(WritesProg(p))

\* ------------------------------------------------------- claims: Conn
CloseLabels == {"Close_check", "Close_body"}
WriteLabels == {"Write_hdr", "Write_body"}

\* C3: Conn.Close is idempotent under repeated and concurrent calls: of all
\* the Close calls on one connection at most one closes the socket and sends
\* on done, exactly one once any call has returned; the one that holds the
\* mutex is never blocked on the done channel, and the mutex is only ever
\* held by a call that is about to release it.
C3_CloseIdempotent ==
    \A c \in Conns :
        /\ hist.sockCloses[c] <= 1
        /\ hist.doneSends[c] <= 1
        /\ hist.closeRets[c] > 0 => hist.sockCloses[c] = 1
        /\ hist.closeRets[c] = hist.sockCloses[c] + hist.closeNoop[c]
        /\ \A p \in Procs :
              pc[p] = "Close_body" /\ arg[p] = c => cdone[c] < DoneCap
        /\ cmu[c] # None =>
              /\ pc[cmu[c]] \in CloseLabels \cup WriteLabels
              /\ arg[cmu[c]] = c

\* C3 witness: a second Close call on a connection has returned, having found
\* the connection already closed.
C3_Witness ==
    \E c \in Conns : hist.closeNoop[c] >= 1 /\ hist.sockCloses[c] = 1

\* C4: a Write, Emit or Send that starts after a Close call has returned on
\* the connection returns an error and never panics.
C4_WriteAfterCloseFails ==
    \A p \in Procs :
        hist.late[p] =>
            /\ p \notin hist.panics
            /\ hist.writeRets[p] \in {"none", "err"}

\* C5: every write to a connection's socket is made by the holder of the
\* connection's write mutex, so at most one frame write is in progress.
C5_SocketWritesHoldMutex ==
    \A c \in Conns :
        /\ \A p \in writing[c] : cmu[c] = p
        /\ Cardinality(writing[c]) <= 1

\* ------------------------------------------------------- claims: registry
\* C1: the registry holds exactly the connections whose addConn has happened
\* and whose dropConn has not, no event is counted twice, and every Count()
\* returns N - M for the N connects and M disconnects completed when it reads.
C1_CountMatchesEvents ==
    /\ \A c \in Conns :
          /\ hist.added[c] <= 1
          /\ hist.dropped[c] <= hist.added[c]
    /\ connections = {c \in Conns : hist.added[c] > hist.dropped[c]}
    /\ Cardinality(connections) = NAdded - NDropped
    /\ \A p \in AppProcs : hist.count[p] = hist.countN[p] - hist.countM[p]

\* C1 witness: a Count() call returned 1 after two connects and one disconnect.
C1_Witness ==
    \E p \in AppProcs :
        hist.count[p] = 1 /\ hist.countN[p] = 2 /\ hist.countM[p] = 1

\* C2 as stated: when Shutdown returns, having found k >= 1 registered
\* connections, every socket is closed and Count() == 0.
C2_ShutdownEmptiesRegistry ==
    \A p \in AppProcs :
        pc[p] = "Shutdown_ret" /\ hist.sdK[p] >= 1 =>
            /\ \A c \in connections : sock[c] = "closed"
            /\ Cardinality(connections) = 0

\* C2 amended: when Shutdown returns, the socket of every registered
\* connection is closed and Server.done is set; the k connections are still
\* registered (Count() == k): each leaves the registry only when its read loop
\* runs dropConn, which waits for the server mutex Shutdown holds.
C2_ShutdownClosesAll ==
    \A p \in AppProcs :
        pc[p] = "Shutdown_ret" =>
            /\ \A c \in connections : sock[c] = "closed" /\ cconn[c] = "nil"
            /\ sdone
            /\ Cardinality(connections) = hist.sdK[p]

\* C2 witness: Shutdown is about to return, having closed two connections.
C2_Witness ==
    \E p \in AppProcs :
        /\ pc[p] = "Shutdown_ret"
        /\ hist.sdK[p] >= 2
        /\ \A c \in connections : hist.sockCloses[c] = 1

\* ------------------------------------------------------- claims: Channel
\* C6: whenever a connection is dropped from the Server registry, it is
\* eventually removed from the membership of every Channel that contained it
\* when it was dropped, so that Channel.Count() no longer counts it.
C6_DisconnectPropagates ==
    \A c \in Conns : \A ch \in Chans :
        (hist.dropped[c] > 0 /\ ch \in hist.atDrop[c]) ~> (c \notin members[ch])

\* a call of Channel.Emit by p is over: it has returned, or it has ended in
\* a panic
EmitOver(p) == hist.em[p].over \/ (hist.em[p].on /\ pc[p] = "panicked")

\* the members the emit of p's call failed for
EmitFailed(p) ==
    hist.em[p].failed \cup (IF pc[p] = "panicked" THEN {arg[p]} ELSE {})

\* C7: if the emit to one member fails, that member is no longer in the
\* channel's membership when Channel.Emit returns, and once the call is over
\* every other member that was present during the whole call has had the
\* message written to it exactly once.
C7_EmitSelfHealing ==
    \A p \in AppProcs :
        (EmitOver(p) /\ EmitFailed(p) # {}) =>
            /\ hist.em[p].stale = {}
            /\ \A c \in hist.em[p].kept \ EmitFailed(p) : hist.em[p].wrote[c] = 1

\* ------------------------------------------------------- claims: broadcast
\* the fan-out f of a broadcast is over: it has gone through the registry,
\* or it has ended in a panic
FanOver(f) == hist.fan[f].over \/ (hist.fan[f].on /\ pc[f] = "panicked")

\* C8: a message passed to Server.Emit on a running server is written
\* exactly once to every connection registered when the fan-out runs; a
\* failed write to one connection does not prevent the write to any other.
C8_BroadcastReachesAll ==
    \A f \in Fans :
        FanOver(f) => \A c \in hist.fan[f].reg : hist.fan[f].att[c] = 1

\* ------------------------------------------------------- claims: router
\* the payload is a {name, data} envelope
IsEnvelope(b) == b.kind = "obj" /\ b.name \in Names /\ b.data \in DataTexts

C10_BinaryToDefault ==
    \A h \in Handlers :
        LET l == hist.last[h] IN
        (l.done /\ l.op = "binary") => (l.cb = 0 /\ l.raw = 1)

\* C11: dispatch is total and exclusive: every message handed to
\* processMessage results in exactly one handler invocation, a registered
\* callback or the default handler, never none and never both; an empty
\* payload, an envelope whose name has no registered callback and a payload
\* that does not parse as an envelope each go to the default handler.
C11_DispatchTotalExclusive ==
    \A h \in Handlers :
        LET l == hist.last[h] IN
        /\ (l.op # "none" /\ pc[h] # "pm_route") => l.done
        /\ l.done => l.cb + l.raw = 1
        /\ (l.done /\ (l.b.kind = "empty" \/ jsonUnmarshal(l.b).err
                        \/ jsonUnmarshal(l.b).Name \notin callbacks)) =>
              (l.raw = 1 /\ l.cb = 0)

\* C11 witness: with a callback registered, an envelope whose name has none
\* has gone to the default handler.
C11_Witness ==
    \E h \in Handlers :
        LET l == hist.last[h] IN
        /\ l.done /\ l.raw = 1 /\ l.cb = 0
        /\ l.b.kind = "obj" /\ l.b.name \in Names \ callbacks
        /\ callbacks # {}

\* the places of a read loop inside its for loop
LoopLabels == {"h_read", "pm_route", "pong_hdr", "pong_body",
               "Write_lock", "Write_hdr", "Write_body"}

\* C12: application-level errors never terminate a connection: a read loop
\* leaves its for loop only on a read error, a refused header, invalid UTF-8
\* or a Close frame; after messages with an unknown name or an unparsable
\* payload, and as long as none of those has happened, the connection is
\* registered, its socket is open and its read loop is running.
C12_AppErrorsKeepConn ==
    \A h \in Handlers :
        /\ (pc[h] \notin LoopLabels \cup {"h_idle", "addConn_lock", "addConn_ins"})
              => hist.cause[h] # "none"
        /\ (hist.appErrs[h] > 0 /\ hist.cause[h] = "none") =>
              /\ pc[h] \in LoopLabels
              /\ ConnOf(h) \in connections
              /\ hist.dropped[ConnOf(h)] = 0
              /\ sock[ConnOf(h)] = "open"

\* C12 witness: after a message whose name has no callback, a later message
\* on the same connection has been dispatched to its callback.
C12_Witness ==
    \E h \in Handlers :
        /\ hist.appErrs[h] > 0
        /\ hist.last[h].done /\ hist.last[h].cb = 1
        /\ ConnOf(h) \in connections

\* the frame a read loop was last given by its client, as it arrived
Arrived(h) ==
    [op |-> hist.last[h].op, fin |-> hist.last[h].fin,
     b |-> hist.last[h].b, u |-> hist.last[h].u]

\* C13: with the default handler of New(), a message routed to the default
\* handler is written back exactly once, to the connection it came from and
\* to no other, with the opcode, fin flag and payload it arrived with; a
\* message that went to a callback is not written back.
C13_DefaultEchoes ==
    \A h \in Handlers :
        LET l == hist.last[h]
            e == hist.echoed[h]
        IN  /\ Len(e) <= 1
            /\ \A i \in 1..Len(e) :
                  /\ l.done /\ l.raw = 1
                  /\ e[i] = [to |-> ConnOf(h), f |-> Arrived(h)]
            /\ (l.done /\ l.raw = 1 /\ pc[h] = "h_read"
                  /\ hist.writeRets[h] = "nil") => Len(e) = 1

\* C13 witness: a Binary frame that is not JSON has been echoed.
C13_Witness ==
    \E h \in Handlers :
        /\ hist.last[h].raw = 1 /\ hist.last[h].op = "binary"
        /\ hist.last[h].b = Garbage
        /\ pc[h] = "h_read"
        /\ hist.echoed[h] = <<[to |-> ConnOf(h), f |-> Arrived(h)]>>

\* a payload as bytes in order: the empty payload has none
Bytes(k) == IF k.b.kind = "empty" THEN <<>> ELSE <<k>>

RECURSIVE Concat(_)
\* the payloads of the fragments of a message, one after the other
Concat(parts) ==
    IF parts = <<>> THEN <<>> ELSE Bytes(Head(parts)) \o Concat(Tail(parts))

\* C14: of a message sent as a start frame with fin=false and Continuation
\* frames, the last one with fin=true, the read loop hands the router one
\* message, after the final fragment has arrived and not before, whose
\* payload is the payloads of all the fragments in order; the loop is then
\* back in the Idle state.
C14_FragmentsReassembled ==
    \A h \in Handlers :
        LET m == hist.msg[h] IN
        /\ m.disp <= 1
        /\ m.disp = 1 =>
              /\ m.complete
              /\ Bytes(Arrived(h)) = Concat(m.parts)
        /\ (m.complete /\ hist.cause[h] = "none") => loop[h] = IdleLoop

RECURSIVE Utf8Run(_, _)
\* the UTF-8 decoder's verdict on the fragments of a text message read one
\* after the other from state st: "bad" once bytes cannot follow, or the
\* state it ends in
Utf8Run(st, parts) ==
    IF parts = <<>> THEN st
    ELSE LET rd == Utf8Read(st, Head(parts).u)
         IN  IF rd.err THEN "bad" ELSE Utf8Run(rd.st, Tail(parts))

\* the payload of message m, or every payload it can still grow into, is
\* not valid UTF-8
InvalidText(m) ==
    /\ m.op = "text"
    /\ LET v == Utf8Run("accept", m.parts)
       IN  v = "bad" \/ (m.complete /\ v # "accept")

\* C15: for a text message, in one frame or in fragments, whose whole
\* payload is not valid UTF-8, the connection is dropped and no handler is
\* invoked for any part of the message.
C15_InvalidTextNeverDispatched ==
    \A h \in Handlers :
        InvalidText(hist.msg[h]) =>
            /\ hist.cause[h] = "utf8"
            /\ hist.msg[h].disp = 0

CtlLabels == {"pong_hdr", "pong_body"}

\* a step of the read loop of h on a Ping or a Pong frame
CtlStep(h) ==
    \/ pc[h] \in CtlLabels
    \/ pc'[h] \in CtlLabels
    \/ hist'.pongsIn[h] # hist.pongsIn[h]

\* C16: control frames are handled inside the read loop without touching
\* message state: on a socket that takes the writes every Ping is answered
\* by exactly one Pong that reaches the client with the Ping's payload, a
\* Pong is answered by nothing, neither reaches a handler, and neither
\* changes state, textPending or the UTF-8 reader's state.
C16_ControlFrames ==
    /\ [](\A h \in Handlers :
            /\ hist.pong[h].n <= hist.ping[h].n
            /\ (pc[h] \in LoopLabels \ CtlLabels /\ sock[ConnOf(h)] = "open")
                  => hist.pong[h].n = hist.ping[h].n
            /\ (hist.pong[h].n = hist.ping[h].n) => hist.pong[h].b = hist.ping[h].b)
    /\ [][\A h \in Handlers :
            CtlStep(h) =>
               /\ loop'[h] = loop[h]
               /\ hist'.last[h] = hist.last[h]
               /\ hist'.msg[h] = hist.msg[h]
               /\ hist'.echoed[h] = hist.echoed[h]
               /\ pc'[h] # "pm_route"
               /\ (hist'.pongsIn[h] # hist.pongsIn[h]) => hist'.pong[h] = hist.pong[h]]_vars

C18_NoUpgradeAfterShutdown ==
    \A h \in Handlers :
        hist.lateUp[h] =>
            /\ hist.added[ConnOf(h)] = 0
            /\ ConnOf(h) \notin connections
            /\ pc[<<"oc", ConnOf(h)>>] = "off"
            /\ pc[h] \notin LoopLabels

\* C19: when Shutdown returns all internal processing has stopped: the
\* goroutine started by Run has returned, and for a message passed to
\* Server.Emit afterwards nothing is written to any connection.
C19_ShutdownStopsProcessing ==
    /\ hist.sdRets > 0 => pc[Runner] = "run_done"
    /\ \A f \in Fans :
          hist.fanLate[f] => \A c \in Conns : hist.fan[f].att[c] = 0

InShutdown == {p \in Procs : pc[p] \in {"Shutdown_wait", "Shutdown_ret"}}

C22_HookAfterRemoval ==
    \A c \in Conns : hist.disc[c] > 0 => c \notin connections

\* C23: registering a callback while messages are dispatched does not race:
\* the lookup in the callbacks map never overlaps On's write to it, and the
\* runtime never ends the process for a concurrent map read and map write.
C23_CallbacksUnderMutex ==
    /\ \A h \in Handlers : \A p \in Procs :
          ~(pc[h] = "pm_route" /\ pc[p] = "On_set")
    /\ \A h \in Handlers : pc[h] # "fatal"

\* C24: messages emitted to one connection arrive in send order: when one
\* caller's Server.Emit of m1 has returned before its Server.Emit of m2
\* starts, no connection gets m2 on its socket before m1.
C24_SendOrder ==
    \A c \in Conns : ~hist.overtaken[c]

\* C25: the registry lock and the channels' locks are held for the map
\* operation only: no goroutine that is writing to a socket or closing one
\* holds Server.mu, as reader or as writer, or a Channel's mu.
C25_NoLockAcrossIO ==
    \A p \in Procs :
        pc[p] \in WriteLabels \cup CloseLabels =>
            /\ smu.w # p
            /\ p \notin smu.r
            /\ \A ch \in Chans : chmu[ch] # p

\* C26: an envelope makes the round trip through the router: when a client
\* sends a text envelope to a server whose callback for its name relays to
\* the sender with c.Emit(msg.Name, msg.Data), the frame the client gets
\* back decodes to the name and to the data it sent.
C26_EnvelopeRoundTrip ==
    \A h \in Handlers :
        LET l == hist.last[h] IN
        (l.done /\ l.op = "text" /\ IsEnvelope(l.b) /\ l.cb = 1
              /\ Len(hist.echoed[h]) = 1) =>
            LET back == hist.echoed[h][1].f.b IN
            /\ back.kind = "obj"
            /\ back.name = l.b.name
            /\ jsonDecode(back.data) = jsonDecode(l.b.data)

\* C27: the keepalive goroutine ends cleanly whatever closes the connection:
\* it never panics, and it stops its ticker at most once, and only after
\* which it is gone.
C27_KeepaliveEnds ==
    \A k \in Keepers :
        /\ pc[k] # "panicked"
        /\ hist.tickerStops[ConnOf(k)] <= 1
        /\ hist.tickerStops[ConnOf(k)] = 1 <=> pc[k] = "ka_exit"

\* C28: Channel.Count() counts only members whose socket is still open: no
\* call of Count has counted a member whose socket was closed then.
C28_CountOnlyOpen ==
    \A p \in AppProcs :
        hist.chCounted[p].done => hist.chCounted[p].closed = {}

\* what one Add or Remove did to Count(), for a connection not yet closed
SetStep(o) ==
    /\ (o.kind = "add" /\ o.live /\ ~o.was) => o.after = o.before + 1
    /\ (o.kind = "add" /\ o.was) => o.after = o.before
    /\ (o.kind = "remove" /\ o.live /\ o.was) => o.after = o.before - 1
    /\ (o.kind = "remove" /\ ~o.was) => o.after = o.before

\* the last two calls were Add and then Remove of one live connection on one
\* channel, with no change of Count() between them
AddThenRemove ==
    /\ Len(hist.ops) = 2
    /\ hist.ops[2].kind = "add" /\ hist.ops[1].kind = "remove"
    /\ hist.ops[2].c = hist.ops[1].c /\ hist.ops[2].ch = hist.ops[1].ch
    /\ hist.ops[2].live /\ hist.ops[1].live
    /\ hist.ops[1].before = hist.ops[2].after

C30_PurgedStaysEmpty ==
    \A ch \in Chans : chq[ch] > 0 => members[ch] = {}

\* the labels at which a goroutine is about to read or write the registry
\* map, and a channel's membership map
RegistryLabels == {"addConn_ins", "dropConn_del", "Count_len", "fan_range",
                   "Shutdown_wait"}
MembersLabels == {"Add_ins", "Remove_del", "Purge_body", "chg_del",
                  "chEmit_range", "chCount_range"}

\* C31: the registry map and every channel's membership map are accessed
\* only under their own lock: a goroutine about to read or write a map holds
\* that map's lock (Server.mu as reader or writer, Channel.mu), and every
\* step that changes a map is taken by the goroutine holding its lock.
C31_MapsUnderLock ==
    /\ [](\A p \in Procs :
            /\ pc[p] \in RegistryLabels => (smu.w = p \/ p \in smu.r)
            /\ pc[p] \in MembersLabels => chmu[ChOf(p)] = p)
    /\ [][\A p \in Procs : pc'[p] # pc[p] =>
              /\ connections' # connections => smu.w = p
              /\ \A ch \in Chans : members'[ch] # members[ch] => chmu[ch] = p]_vars

C31_Witness ==
    /\ \E c \in Conns : hist.dropped[c] > 0
    /\ \E ch \in Chans : chq[ch] > 0
    /\ \E p \in AppProcs : hist.chCounted[p].done

\* C32: every call of Server.Emit eventually returns, in every lifecycle
\* state of the server: while the process lives, a goroutine inside
\* Server.Emit eventually gets out of it.
C32_EmitReturns ==
    \A p \in AppProcs :
        (pc[p] = "Emit_send" /\ ~Crashed) ~> (pc[p] = "idle" \/ Crashed)

\* C33: Server.SendTo always returns and leaves the server mutex free: a
\* goroutine that has called SendTo is eventually back from it, and so is
\* one that has called Count or Channel.
C33_SendToReturns ==
    \A p \in AppProcs : (pc[p] # "idle") ~> (pc[p] = "idle")

\* C34: a connection is counted as soon as its client's dial has succeeded:
\* a Count() called after k clients have completed the handshake, none of
\* them having disconnected before it returns, never returns less than k.
C34_CountedOnceDialed ==
    \A p \in AppProcs : ~hist.uncounted[p]

\* C35: in the event-loop Server a second call of Shutdown always returns,
\* also while disconnect events caused by the first call are pending: every
\* goroutine that has called Shutdown is eventually back from it.
C35_SecondShutdownReturns ==
    \A p \in AppProcs : (pc[p] # "idle") ~> (pc[p] = "idle")

\* C36: Channel.Purge does not disturb the propagation of disconnects: no
\* notifier goroutine of dropConn stays blocked forever on the notification
\* queue of a channel; each one that has a queue to send on eventually has
\* sent on every queue and ended.
C36_NotifierNeverStuck ==
    \A n \in Notifiers : (pc[n] = "nt_send") ~> (pc[n] = "off")

\* the locks a goroutine holds
HoldsServer(p) == smu.w = p \/ p \in smu.r
HoldsChannel(p) == \E ch \in Chans : chmu[ch] = p
HoldsConn(p) == \E c \in Conns : cmu[c] = p

ConnLockLabels == {"Write_lock", "Close_lock"}
ChannelLockLabels == {"chEmit_lock", "chEmit_relock", "chCount_lock", "Channels_count",
                      "chg_lock", "Add_lock", "Remove_lock", "Purge_lock"}
ServerLockLabels == {"Shutdown_lock", "addConn_lock", "dropConn_lock", "On_lock"}
ServerRLockLabels == {"Count_rlock", "fan_rlock", "Channels_rlock"}

\* the goroutines p cannot go on without: the holder of the lock it is
\* waiting for, or the closing goroutines Shutdown's wg.Wait() waits for
WaitsFor(p) ==
    IF Crashed THEN {}
    ELSE IF pc[p] \in ConnLockLabels THEN {cmu[arg[p]]} \ {None}
    ELSE IF pc[p] \in ChannelLockLabels THEN {chmu[ChOf(p)]} \ {None}
    ELSE IF pc[p] \in ServerLockLabels THEN ({smu.w} \cup smu.r) \ {None}
    ELSE IF pc[p] \in ServerRLockLabels THEN {smu.w} \ {None}
    ELSE IF pc[p] = "Shutdown_wait" THEN {g \in Closers : pc[g] # "off"}
    ELSE {}

\* a set of goroutines each of which waits for another one of the set
Deadlocked(S) == S # {} /\ \A p \in S : WaitsFor(p) \cap S # {}

\* C37: the locks are acquired in the order Server.mu, Channel.mu, Conn.mu
\* (a goroutine that takes Server.mu holds neither of the others, one that
\* takes a Channel.mu holds no Conn.mu), and no set of goroutines ever wait
\* for one another in a circle.
C37_LockOrder ==
    /\ [][\A p \in Procs :
            /\ (HoldsServer(p)' /\ ~HoldsServer(p)) => (~HoldsChannel(p) /\ ~HoldsConn(p))
            /\ (\E ch \in Chans : chmu'[ch] = p /\ chmu[ch] # p) => ~HoldsConn(p)]_vars
    /\ [](\A S \in SUBSET {p \in Procs : WaitsFor(p) # {}} : ~Deadlocked(S))

\* C37 witness: a goroutine inside Channels holds Server.mu and waits for the
\* Channel.mu of a goroutine that, inside Channel.Emit, holds a Conn.mu.
C37_Witness ==
    \E p, q \in AppProcs :
        /\ ~Crashed
        /\ HoldsServer(p) /\ pc[p] = "Channels_count" /\ WaitsFor(p) = {q}
        /\ HoldsChannel(q) /\ HoldsConn(q)

\* the labels of Handler from the read loop on
AfterConnect == {"h_read", "dropConn_notify", "dropConn_lock", "dropConn_del",
                 "h_ret", "h_done"}

C39_RegisteredBeforeHook ==
    \A o \in Hooks :
        pc[o] \in {"Add_lock", "Add_ins"} => ConnOf(o) \in connections

\* C40: Conn.Write of the event-loop variant releases the write mutex on
\* every return path, also when writing the header fails: every goroutine
\* that calls Write, Emit or Send on a connection eventually returns.
C40_WriteReleasesMutex ==
    \A p \in AppProcs : (pc[p] = "WriteV_lock") ~> (pc[p] = "idle")

====
